---------------------------- MODULE Spec2Model ----------------------------
(***************************************************************************)
(* Ranking engines of ticket-wizard: the attribute matcher                 *)
(* (RecommendationEngine), the cosine engine (VectorRecommendationEngine)  *)
(* and the index-backed service (FAISSSearchService).                      *)
(*                                                                         *)
(* Text is a sequence of one-character strings, so that String.includes,   *)
(* toLowerCase and the regular expressions are computed on characters.     *)
(* Real numbers are fixed-point integers: the attribute score is kept in   *)
(* halves, the cosine engine's features in 1/VS, the index service's       *)
(* features in 1/FS.                                                       *)
(***************************************************************************)
EXTENDS Integers, Sequences, FiniteSets, TLC

(***************************************************************************)
(* Bounds of the model.                                                    *)
(***************************************************************************)
\* the catalog is a prefix of Pool of at most this length
MaxCatalog == 6
\* a rank request asks the index service for k in 0..MaxK items
MaxK == 2
\* the wall clock advances by at most this many days
MaxTick == 1
\* the longest vector handed to cosineSimilarity on its own
MaxDim == 2
\* the longest conversation: the queries sent to one chat
MaxTurns == 2
\* the packages a chat puts in its cart
MaxCart == 1

(***************************************************************************)
(* JavaScript strings.                                                     *)
(***************************************************************************)
UpperCase == <<"A","B","C","D","E","F","G","H","I","J","K","L","M","N","O","P","Q","R","S","T","U","V","W","X","Y","Z">>
LowerCase == <<"a","b","c","d","e","f","g","h","i","j","k","l","m","n","o","p","q","r","s","t","u","v","w","x","y","z">>
Digits == <<"0","1","2","3","4","5","6","7","8","9">>

\* a function on 1..n as a sequence, its elements evaluated once
AsSeq(f) == f \o <<>>

\* String.prototype.toLowerCase
toLowerCase(s) ==
  AsSeq([i \in 1..Len(s) |->
           IF \E j \in 1..26 : UpperCase[j] = s[i]
           THEN LowerCase[CHOOSE j \in 1..26 : UpperCase[j] = s[i]]
           ELSE s[i]])

\* s.slice(i, i + Len(t)) = t, i counted from 0
MatchAt(s, t, i) ==
  /\ i + Len(t) <= Len(s)
  /\ \A j \in 1..Len(t) : s[i + j] = t[j]

\* String.prototype.includes
includes(s, t) == \E i \in 0..Len(s) : MatchAt(s, t, i)

\* JavaScript truthiness of an optional string, number or object: a field
\* that is absent, the empty string and the number 0 are falsy
Absent == [set |-> FALSE, v |-> 0]
Some(x) == [set |-> TRUE, v |-> x]
TruthyStr(o) == o.set /\ Len(o.v) > 0
TruthyNum(o) == o.set /\ o.v # 0

(***************************************************************************)
(* The string literals of the encoders and extractors.                     *)
(***************************************************************************)
K == [
  new_york |-> <<"n","e","w"," ","y","o","r","k">>,
  nyc |-> <<"n","y","c">>,
  los_angeles |-> <<"l","o","s"," ","a","n","g","e","l","e","s">>,
  la |-> <<"l","a">>,
  boston |-> <<"b","o","s","t","o","n">>,
  chicago |-> <<"c","h","i","c","a","g","o">>,
  dallas |-> <<"d","a","l","l","a","s">>,
  san_francisco |-> <<"s","a","n"," ","f","r","a","n","c","i","s","c","o">>,
  sf |-> <<"s","f">>,
  denver |-> <<"d","e","n","v","e","r">>,
  green_bay |-> <<"g","r","e","e","n"," ","b","a","y">>,
  basketball |-> <<"b","a","s","k","e","t","b","a","l","l">>,
  baseball |-> <<"b","a","s","e","b","a","l","l">>,
  football |-> <<"f","o","o","t","b","a","l","l">>,
  hockey |-> <<"h","o","c","k","e","y">>,
  knicks |-> <<"k","n","i","c","k","s">>,
  lakers |-> <<"l","a","k","e","r","s">>,
  celtics |-> <<"c","e","l","t","i","c","s">>,
  bulls |-> <<"b","u","l","l","s">>,
  yankees |-> <<"y","a","n","k","e","e","s">>,
  red_sox |-> <<"r","e","d"," ","s","o","x">>,
  dodgers |-> <<"d","o","d","g","e","r","s">>,
  cowboys |-> <<"c","o","w","b","o","y","s">>,
  patriots |-> <<"p","a","t","r","i","o","t","s">>,
  packers |-> <<"p","a","c","k","e","r","s">>,
  cheap |-> <<"c","h","e","a","p">>,
  budget |-> <<"b","u","d","g","e","t">>,
  affordable |-> <<"a","f","f","o","r","d","a","b","l","e">>,
  premium |-> <<"p","r","e","m","i","u","m">>,
  expensive |-> <<"e","x","p","e","n","s","i","v","e">>,
  vip |-> <<"v","i","p">>,
  luxury |-> <<"l","u","x","u","r","y">>,
  mid |-> <<"m","i","d">>,
  moderate |-> <<"m","o","d","e","r","a","t","e">>,
  under |-> <<"u","n","d","e","r">>,
  club |-> <<"c","l","u","b">>,
  standard |-> <<"s","t","a","n","d","a","r","d">>,
  basic |-> <<"b","a","s","i","c">>,
  lounge |-> <<"l","o","u","n","g","e">>,
  center |-> <<"c","e","n","t","e","r">>,
  arena |-> <<"a","r","e","n","a">>,
  stadium |-> <<"s","t","a","d","i","u","m">>,
  field |-> <<"f","i","e","l","d">>,
  park |-> <<"p","a","r","k">>,
  madison_square_garden |-> <<"m","a","d","i","s","o","n"," ","s","q","u","a","r","e"," ","g","a","r","d","e","n">>,
  staples_center |-> <<"s","t","a","p","l","e","s"," ","c","e","n","t","e","r">>,
  fenway_park |-> <<"f","e","n","w","a","y"," ","p","a","r","k">>,
  lambeau_field |-> <<"l","a","m","b","e","a","u"," ","f","i","e","l","d">>,
  yankee_stadium |-> <<"y","a","n","k","e","e"," ","s","t","a","d","i","u","m">>,
  td_garden |-> <<"t","d"," ","g","a","r","d","e","n">>,
  tonight |-> <<"t","o","n","i","g","h","t">>,
  today |-> <<"t","o","d","a","y">>,
  this_week |-> <<"t","h","i","s"," ","w","e","e","k">>,
  this_month |-> <<"t","h","i","s"," ","m","o","n","t","h">>,
  next_month |-> <<"n","e","x","t"," ","m","o","n","t","h">>,
  week |-> <<"w","e","e","k">>,
  month |-> <<"m","o","n","t","h">>,
  people |-> <<"p","e","o","p","l","e">>,
  person |-> <<"p","e","r","s","o","n">>,
  group |-> <<"g","r","o","u","p">>,
  friends |-> <<"f","r","i","e","n","d","s">>,
  family |-> <<"f","a","m","i","l","y">>,
  corporate |-> <<"c","o","r","p","o","r","a","t","e">>,
  date |-> <<"d","a","t","e">>,
  romantic |-> <<"r","o","m","a","n","t","i","c">>,
  celebration |-> <<"c","e","l","e","b","r","a","t","i","o","n">>,
  special |-> <<"s","p","e","c","i","a","l">>,
  business |-> <<"b","u","s","i","n","e","s","s">>,
  entertainment |-> <<"e","n","t","e","r","t","a","i","n","m","e","n","t">>,
  exclusive |-> <<"e","x","c","l","u","s","i","v","e">>,
  floor |-> <<"f","l","o","o","r">>,
  court |-> <<"c","o","u","r","t">>,
  lower |-> <<"l","o","w","e","r">>,
  upper |-> <<"u","p","p","e","r">>,
  suite |-> <<"s","u","i","t","e">>,
  box |-> <<"b","o","x">>,
  VIP |-> <<"V","I","P">>,
  Madison_Square_Garden |-> <<"M","a","d","i","s","o","n"," ","S","q","u","a","r","e"," ","G","a","r","d","e","n">>,
  Staples_Center |-> <<"S","t","a","p","l","e","s"," ","C","e","n","t","e","r">>,
  Fenway_Park |-> <<"F","e","n","w","a","y"," ","P","a","r","k">>,
  Lambeau_Field |-> <<"L","a","m","b","e","a","u"," ","F","i","e","l","d">>
]

(***************************************************************************)
(* The catalog: TicketPackage records.  A date is a day of the year 2024   *)
(* (75 is 2024-03-15).                                                     *)
(***************************************************************************)
Pkg(id, price, venue, date, sport, seating, htype, hlevel, loc, avail, desc) ==
  [id |-> id, price |-> price, venue |-> venue, date |-> date,
   sportType |-> sport, seatingCategory |-> seating, hospitalityType |-> htype,
   hospitalityLevel |-> hlevel, location |-> loc, availableTickets |-> avail,
   description |-> desc]

Pool == <<
  Pkg(1, 450, <<"M","a","d","i","s","o","n"," ","S","q","u","a","r","e"," ","G","a","r","d","e","n">>, 75, <<"B","a","s","k","e","t","b","a","l","l">>, <<"P","r","e","m","i","u","m">>,
      <<"V","I","P"," ","L","o","u","n","g","e">>, "Platinum", <<"N","e","w"," ","Y","o","r","k">>, 10, <<"P","r","e","m","i","u","m"," ","c","o","u","r","t","s","i","d","e"," ","s","e","a","t","s">>),
  Pkg(2, 250, <<"S","t","a","p","l","e","s"," ","C","e","n","t","e","r">>, 80, <<"B","a","s","k","e","t","b","a","l","l">>, <<"L","o","w","e","r"," ","L","e","v","e","l">>,
      <<"C","l","u","b"," ","A","c","c","e","s","s">>, "Gold", <<"L","o","s"," ","A","n","g","e","l","e","s">>, 15, <<"c","l","u","b"," ","a","c","c","e","s","s"," ","a","n","d"," ","d","i","n","i","n","g">>),
  Pkg(3, 450, <<"M","a","d","i","s","o","n"," ","S","q","u","a","r","e"," ","G","a","r","d","e","n">>, 76, <<"B","a","s","k","e","t","b","a","l","l">>, <<"P","r","e","m","i","u","m">>,
      <<"V","I","P"," ","L","o","u","n","g","e">>, "Platinum", <<"N","e","w"," ","Y","o","r","k">>, 10, <<"P","r","e","m","i","u","m"," ","c","o","u","r","t","s","i","d","e"," ","s","e","a","t","s">>),
  Pkg(4, 150, <<"F","e","n","w","a","y"," ","P","a","r","k">>, 101, <<"B","a","s","e","b","a","l","l">>, <<"U","p","p","e","r"," ","D","e","c","k">>,
      <<"S","t","a","n","d","a","r","d">>, "Silver", <<"B","o","s","t","o","n">>, 50, <<"f","a","m","i","l","y"," ","o","u","t","i","n","g">>),
  Pkg(5, 50, <<"W","r","i","g","l","e","y"," ","F","i","e","l","d">>, 85, <<"B","a","s","e","b","a","l","l">>, <<"U","p","p","e","r"," ","D","e","c","k">>,
      <<"S","t","a","n","d","a","r","d">>, "Bronze", <<"C","h","i","c","a","g","o">>, 5, <<"b","u","d","g","e","t"," ","s","e","a","t","s">>),
  Pkg(6, 900, <<"L","a","m","b","e","a","u"," ","F","i","e","l","d">>, 77, <<"F","o","o","t","b","a","l","l">>, <<"S","u","i","t","e">>,
      <<"V","I","P"," ","S","u","i","t","e">>, "Platinum", <<"G","r","e","e","n"," ","B","a","y">>, 5, <<"l","u","x","u","r","y"," ","s","u","i","t","e">>),
  Pkg(7, 1200, <<"A","T","&","T"," ","S","t","a","d","i","u","m">>, 78, <<"F","o","o","t","b","a","l","l">>, <<"C","l","u","b"," ","L","e","v","e","l">>,
      <<"V","I","P"," ","L","o","u","n","g","e">>, "Gold", <<"D","a","l","l","a","s">>, 20, <<"e","x","c","l","u","s","i","v","e"," ","c","o","r","p","o","r","a","t","e"," ","b","o","x">>),
  Pkg(8, 900, <<"T","D"," ","G","a","r","d","e","n">>, 90, <<"H","o","c","k","e","y">>, <<"L","o","w","e","r"," ","L","e","v","e","l">>,
      <<"C","l","u","b"," ","A","c","c","e","s","s">>, "Gold", <<"B","o","s","t","o","n">>, 10, <<"s","p","e","c","i","a","l"," ","g","r","o","u","p"," ","n","i","g","h","t">>)
>>

Catalogs == { SubSeq(Pool, 1, n) : n \in 0..MaxCatalog }

(***************************************************************************)
(* UserPreferences: every field is optional.                               *)
(***************************************************************************)
Prefs(loc, sport, htype, date, people, budget) ==
  [location |-> loc, sport |-> sport, hospitalityType |-> htype,
   date |-> date, peopleCount |-> people, budget |-> budget]

PrefsSet == <<
  Prefs(Absent, Absent, Absent, Absent, Absent, Absent),
  Prefs(Absent, Some(<<"B","a","s","e","b","a","l","l">>), Absent, Absent, Absent, Absent),
  Prefs(Some(<<"N","e","w"," ","Y","o","r","k">>), Some(<<"b","a","s","k","e","t","b","a","l","l">>), Some(<<"V","I","P">>), Some(75),
        Some(4), Some([min |-> 0, max |-> 500])),
  Prefs(Absent, Absent, Absent, Absent, Some(2), Absent),
  Prefs(Absent, Absent, Absent, Some(78), Absent, Some([min |-> 200, max |-> 500]))
>>

(***************************************************************************)
(* RecommendationEngine, the attribute matcher.                            *)
(***************************************************************************)
\* calculateScore's terms before Math.round, in halves: the date term
\* 15 * (1 - daysDiff / 30) is (30 - daysDiff) halves
Abs(x) == IF x < 0 THEN -x ELSE x

ScoreTerms(pkg, preferences) ==
  LET daysDiff == Abs(pkg.date - preferences.date.v)
  IN  [location |-> IF /\ TruthyStr(preferences.location)
                       /\ includes(toLowerCase(pkg.location),
                                   toLowerCase(preferences.location.v))
                    THEN 2 * 30 ELSE 0,
       sport |-> IF /\ TruthyStr(preferences.sport)
                    /\ includes(toLowerCase(pkg.sportType),
                                toLowerCase(preferences.sport.v))
                 THEN 2 * 25 ELSE 0,
       hospitality |-> IF /\ TruthyStr(preferences.hospitalityType)
                          /\ includes(toLowerCase(pkg.hospitalityType),
                                      toLowerCase(preferences.hospitalityType.v))
                       THEN 2 * 20 ELSE 0,
       date |-> IF preferences.date.set /\ daysDiff <= 30
                THEN 30 - daysDiff ELSE 0,
       people |-> IF /\ TruthyNum(preferences.peopleCount)
                     /\ pkg.availableTickets >= preferences.peopleCount.v
                  THEN 2 * 10 ELSE 0,
       budget |-> IF ~preferences.budget.set THEN 0
                  ELSE IF /\ pkg.price >= preferences.budget.v.min
                          /\ pkg.price <= preferences.budget.v.max
                       THEN 2 * 20
                  ELSE IF pkg.price < preferences.budget.v.min THEN 2 * 10
                  ELSE 0]

ScoreHalves(pkg, preferences) ==
  LET t == ScoreTerms(pkg, preferences)
  IN  t.location + t.sport + t.hospitality + t.date + t.people + t.budget

\* Math.round of h halves, h >= 0: halves round up
RoundHalves(h) == (h + 1) \div 2

\* Math.round(score).  The score is a double: 15 * (1 - daysDiff / 30) comes
\* out one unit in the last place under its half (3.5, 2.5, 1.5, 0.5) for
\* daysDiff 23, 25, 27 and 29.  Added to another term the sum is the exact
\* half again; left alone it rounds down.
calculateScore(pkg, preferences) ==
  LET t == ScoreTerms(pkg, preferences)
      h == ScoreHalves(pkg, preferences)
  IN  IF h = t.date /\ t.date \in {7, 5, 3, 1} THEN h \div 2
      ELSE RoundHalves(h)

\* a reason string: the rule that produced it and the number printed in it
\* (the score of the generic reason; the other texts are fixed by the package)
Reason(rule, n) == [rule |-> rule, n |-> n]

getReasons(pkg, preferences) ==
  (IF /\ TruthyStr(preferences.location)
      /\ includes(toLowerCase(pkg.location), toLowerCase(preferences.location.v))
   THEN <<Reason("location", 0)>> ELSE <<>>)
  \o (IF /\ TruthyStr(preferences.sport)
         /\ includes(toLowerCase(pkg.sportType), toLowerCase(preferences.sport.v))
      THEN <<Reason("sport", 0)>> ELSE <<>>)
  \o (IF /\ TruthyStr(preferences.hospitalityType)
         /\ includes(toLowerCase(pkg.hospitalityType),
                     toLowerCase(preferences.hospitalityType.v))
      THEN <<Reason("hospitality", 0)>> ELSE <<>>)
  \o (IF /\ TruthyNum(preferences.peopleCount)
         /\ pkg.availableTickets >= preferences.peopleCount.v
      THEN <<Reason("people", 0)>> ELSE <<>>)
  \o (IF preferences.budget.set /\ pkg.price <= preferences.budget.v.max
      THEN <<Reason("budget", 0)>> ELSE <<>>)

(***************************************************************************)
(* Array.prototype.filter, the stable Array.prototype.sort by descending   *)
(* score, and slice(0, k), on sequences of RecommendationScore.            *)
(***************************************************************************)
\* a filter that lets every item through
KeepAll(items, t) == items

FilterAbove(items, t) == SelectSeq(items, LAMBDA r : r.score > t)

\* a sort that leaves the array as it is
Unsorted(items) == items

RECURSIVE InsertDesc(_, _)
\* r goes after every item whose score is >= its own
InsertDesc(sorted, r) ==
  IF sorted = <<>> THEN <<r>>
  ELSE IF Head(sorted).score >= r.score
       THEN <<Head(sorted)>> \o InsertDesc(Tail(sorted), r)
       ELSE <<r>> \o sorted

RECURSIVE SortDesc(_)
SortDesc(items) ==
  IF items = <<>> THEN <<>>
  ELSE InsertDesc(SortDesc(SubSeq(items, 1, Len(items) - 1)), items[Len(items)])

\* a slice that takes the whole array
WholeArray(items, k) == items

\* Array.prototype.slice(0, k)
Slice(items, k) == SubSeq(items, 1, IF k < Len(items) THEN k ELSE Len(items))

\* RecommendationEngine.findRecommendations
findRecommendations(pkgs, preferences) ==
  LET scores == AsSeq([i \in 1..Len(pkgs) |->
                         [pkg |-> i,
                          score |-> calculateScore(pkgs[i], preferences),
                          reasons |-> getReasons(pkgs[i], preferences)]])
  IN  Slice(SortDesc(FilterAbove(scores, 0)), 5)

(***************************************************************************)
(* The free-text queries of the rank requests.                             *)
(***************************************************************************)
Queries == <<
  <<"V","I","P"," ","b","a","s","k","e","t","b","a","l","l"," ","t","i","c","k","e","t","s"," ","i","n"," ","N","e","w"," ","Y","o","r","k"," ","f","o","r"," ","4"," ","p","e","o","p","l","e">>,
  <<"c","h","e","a","p"," ","b","a","s","e","b","a","l","l"," ","t","i","c","k","e","t","s"," ","n","e","a","r"," ","B","o","s","t","o","n">>,
  <<"t","i","c","k","e","t","s">>
>>

(***************************************************************************)
(* query.match(/(\d+)\s*(?:people|person|...)/): the leftmost match, its   *)
(* group 1 parsed by parseInt.                                             *)
(***************************************************************************)
IsDigit(c) == \E d \in 1..10 : Digits[d] = c
DigitVal(c) == (CHOOSE d \in 1..10 : Digits[d] = c) - 1

RECURSIVE parseInt(_)
parseInt(ds) ==
  IF ds = <<>> THEN 0
  ELSE 10 * parseInt(SubSeq(ds, 1, Len(ds) - 1)) + DigitVal(ds[Len(ds)])

\* the first index >= i (from 1) that holds no character of the class
RECURSIVE SkipDigits(_, _)
SkipDigits(s, i) ==
  IF i <= Len(s) /\ IsDigit(s[i]) THEN SkipDigits(s, i + 1) ELSE i

RECURSIVE SkipSpaces(_, _)
SkipSpaces(s, i) ==
  IF i <= Len(s) /\ s[i] = " " THEN SkipSpaces(s, i + 1) ELSE i

\* a match starts at index i: digits, optional white space, then a word
GroupMatchAt(s, words, i) ==
  /\ i <= Len(s) /\ IsDigit(s[i])
  /\ \E w \in words : MatchAt(s, w, SkipSpaces(s, SkipDigits(s, i)) - 1)

matchGroup(s, words) ==
  IF \E i \in 1..Len(s) : GroupMatchAt(s, words, i)
  THEN LET i == CHOOSE i \in 1..Len(s) :
                  /\ GroupMatchAt(s, words, i)
                  /\ \A j \in 1..(i - 1) : ~GroupMatchAt(s, words, j)
       IN  Some(parseInt(SubSeq(s, i, SkipDigits(s, i) - 1)))
  ELSE Absent

(***************************************************************************)
(* VectorRecommendationEngine.  A feature x is the integer VS * x.         *)
(***************************************************************************)
VS == 20

Min(a, b) == IF a < b THEN a ELSE b
Max(a, b) == IF a > b THEN a ELSE b

V_cities == <<K.new_york, K.los_angeles, K.boston, K.chicago, K.dallas,
              K.san_francisco, K.denver, K.green_bay>>
V_sports == <<K.basketball, K.baseball, K.football, K.hockey>>

V_encodeLocation(location) ==
  [i \in 1..8 |-> IF includes(toLowerCase(location), V_cities[i]) THEN VS ELSE 0]

V_encodeSport(sport) ==
  [i \in 1..4 |-> IF toLowerCase(sport) = V_sports[i] THEN VS ELSE 0]

\* levels[level] || 0.5
encodeHospitalityLevel(level) ==
  CASE level = "Bronze" -> VS \div 4
    [] level = "Silver" -> VS \div 2
    [] level = "Gold" -> (3 * VS) \div 4
    [] level = "Platinum" -> VS
    [] OTHER -> VS \div 2

encodeVenuePrestige(venue) ==
  IF \/ includes(venue, K.Madison_Square_Garden)
     \/ includes(venue, K.Staples_Center)
     \/ includes(venue, K.Fenway_Park)
     \/ includes(venue, K.Lambeau_Field)
  THEN VS ELSE VS \div 2

V_createPackageEmbedding(pkg) ==
  V_encodeLocation(pkg.location)
  \o V_encodeSport(pkg.sportType)
  \o << Min((pkg.price * VS) \div 1000, VS),
        encodeHospitalityLevel(pkg.hospitalityLevel),
        encodeVenuePrestige(pkg.venue),
        VS \div 2,
        Min((pkg.availableTickets * VS) \div 50, VS) >>

V_extractLocationFromQuery(query) ==
  [i \in 1..8 |-> IF includes(query, V_cities[i]) THEN VS ELSE 0]

\* team -> index of its sport in V_sports
V_teams == << <<K.knicks, 1>>, <<K.lakers, 1>>, <<K.celtics, 1>>, <<K.bulls, 1>>,
              <<K.yankees, 2>>, <<K.red_sox, 2>>,
              <<K.cowboys, 3>>, <<K.patriots, 3>> >>

V_extractSportFromQuery(query) ==
  [i \in 1..4 |->
     IF \/ includes(query, V_sports[i])
        \/ \E t \in 1..Len(V_teams) :
              V_teams[t][2] = i /\ includes(query, V_teams[t][1])
     THEN VS ELSE 0]

extractPricePreferenceFromQuery(query) ==
  IF includes(query, K.cheap) \/ includes(query, K.budget) \/ includes(query, K.under)
  THEN VS \div 5
  ELSE IF \/ includes(query, K.premium) \/ includes(query, K.expensive)
          \/ includes(query, K.luxury)
       THEN (9 * VS) \div 10
  ELSE IF includes(query, K.vip) THEN VS
  ELSE VS \div 2

extractHospitalityFromQuery(query) ==
  IF includes(query, K.vip) \/ includes(query, K.premium) \/ includes(query, K.luxury)
  THEN VS
  ELSE IF includes(query, K.club) \/ includes(query, K.lounge) THEN (3 * VS) \div 4
  ELSE IF includes(query, K.basic) \/ includes(query, K.standard) THEN VS \div 4
  ELSE VS \div 2

extractGroupSizeInfluence(query) ==
  LET groupMatch == matchGroup(query, {K.people, K.person, K.group, K.friends})
  IN  IF groupMatch.set THEN Min((groupMatch.v * VS) \div 10, VS) ELSE VS \div 2

V_createQueryEmbedding(query) ==
  LET lowerQuery == toLowerCase(query)
  IN  V_extractLocationFromQuery(lowerQuery)
      \o V_extractSportFromQuery(lowerQuery)
      \o << extractPricePreferenceFromQuery(lowerQuery),
            extractHospitalityFromQuery(lowerQuery),
            VS \div 2,
            VS \div 2,
            extractGroupSizeInfluence(lowerQuery) >>

RECURSIVE DotIn(_, _, _)
\* the sum of a[i] * b[i] over the positions i of S
DotIn(a, b, S) ==
  IF S = {} THEN 0
  ELSE LET i == CHOOSE j \in S : TRUE
       IN  a[i] * b[i] + DotIn(a, b, S \ {i})

\* the sum of a[i] * b[i] over i in 1..n: the terms that are not 0 are summed
DotTo(a, b, n) == DotIn(a, b, {i \in 1..n : a[i] # 0 /\ b[i] # 0})

\* a cosine without the guards: 0 / 0 where a vector has no magnitude
CosineUnguarded(a, b) ==
  [num |-> DotTo(a, b, Min(Len(a), Len(b))),
   den |-> DotTo(a, a, Len(a)) * DotTo(b, b, Len(b))]

\* The similarity dot / (sqrt(normA) * sqrt(normB)) is kept as the exact pair
\* [num |-> dot, den |-> normA * normB]; 0 is [num |-> 0, den |-> 1].
V_cosineSimilarity(a, b) ==
  IF Len(a) # Len(b) THEN [num |-> 0, den |-> 1]
  ELSE LET dotProduct == DotTo(a, b, Len(a))
           normA == DotTo(a, a, Len(a))
           normB == DotTo(b, b, Len(b))
       IN  IF normA = 0 \/ normB = 0 THEN [num |-> 0, den |-> 1]
           ELSE [num |-> dotProduct, den |-> normA * normB]

\* floor(40000 * n / d) for 0 <= n, by long division (no product exceeds 10 * d)
Floor40000(n, d) ==
  LET q0 == n \div d
      r0 == n % d
      q1 == (r0 * 10) \div d
      r1 == (r0 * 10) % d
      q2 == (r1 * 10) \div d
      r2 == (r1 * 10) % d
      q3 == (r2 * 10) \div d
      r3 == (r2 * 10) % d
      q4 == (r3 * 10) \div d
      r4 == (r3 * 10) % d
      q5 == (r4 * 4) \div d
  IN  ((((q0 * 10 + q1) * 10 + q2) * 10 + q3) * 10 + q4) * 4 + q5

\* Math.round(similarity * 100) for similarity >= 0: the largest s with
\* s - 1/2 <= 100 * similarity, that is (2s - 1)^2 <= 40000 * num^2 / den
V_roundScore(sim) ==
  LET f == Floor40000(sim.num * sim.num, sim.den)
      S == {s \in 1..100 : (2 * s - 1) * (2 * s - 1) <= f}
  IN  IF S = {} THEN 0 ELSE CHOOSE s \in S : \A t \in S : t <= s

\* similarity > 0.8, that is 25 * num^2 > 16 * den
V_above80(sim) == 25 * sim.num * sim.num > 16 * sim.den

V_generateReasons(query, pkg, similarity) ==
  LET lowerQuery == toLowerCase(query)
      reasons ==
        (IF includes(lowerQuery, toLowerCase(pkg.location))
         THEN <<Reason("location", 0)>> ELSE <<>>)
        \o (IF includes(lowerQuery, toLowerCase(pkg.sportType))
            THEN <<Reason("sport", 0)>> ELSE <<>>)
        \o (IF /\ includes(lowerQuery, K.budget) \/ includes(lowerQuery, K.cheap)
               /\ pkg.price < 200
            THEN <<Reason("budget", 0)>> ELSE <<>>)
        \o (IF /\ includes(lowerQuery, K.premium) \/ includes(lowerQuery, K.vip)
               /\ pkg.hospitalityLevel \in {"Platinum", "Gold"}
            THEN <<Reason("premium", 0)>> ELSE <<>>)
        \o (IF includes(lowerQuery, K.vip) /\ includes(pkg.hospitalityType, K.VIP)
            THEN <<Reason("vip", 0)>> ELSE <<>>)
        \o (IF V_above80(similarity) THEN <<Reason("excellent", 0)>> ELSE <<>>)
  IN  IF Len(reasons) > 0 THEN reasons
      ELSE <<Reason("generic", V_roundScore(similarity))>>

\* the catalog positions whose package has a cached vector
CachedPositions(pkgs, cache) ==
  SelectSeq([i \in 1..Len(pkgs) |-> i], LAMBDA i : pkgs[i].id \in DOMAIN cache)

\* The scoring loop and the return statement of findRecommendationsByQuery;
\* cache is this.packageEmbeddings, a function from package ids to vectors.
V_rank(pkgs, cache, query) ==
  LET queryEmbedding == V_createQueryEmbedding(query)
      cached == CachedPositions(pkgs, cache)
      scores == AsSeq([n \in 1..Len(cached) |->
                   LET pkg == pkgs[cached[n]]
                       similarity == V_cosineSimilarity(queryEmbedding, cache[pkg.id])
                   IN  [pkg |-> cached[n],
                        score |-> V_roundScore(similarity),
                        reasons |-> V_generateReasons(query, pkg, similarity)]])
  IN  Slice(SortDesc(FilterAbove(scores, 30)), 5)

(***************************************************************************)
(* The wall clock.  new Date() is a day of the year 2024; getMonth() and   *)
(* getDay() are those of that day (2024-01-01, day 1, is a Monday).        *)
(***************************************************************************)
MonthEnds == <<31, 60, 91, 121, 152, 182, 213, 244, 274, 305, 335, 366>>
getMonth(day) == Cardinality({m \in 1..12 : MonthEnds[m] < day})
getDay(day) == day % 7

(***************************************************************************)
(* FAISSSearchService.  A feature x is the integer nearest to FS * x; a    *)
(* similarity (inner product or cosine) s is an integer in units of        *)
(* 1 / (FS * FS).                                                          *)
(***************************************************************************)
FS == 1000
embeddingDimension == 384

\* the one-hot block of width n with a 1 at position i (none for i = 0)
OneHot(i, n) == [j \in 1..n |-> IF j = i THEN FS ELSE 0]

\* the index of the first row of a table whose key the text includes, or 0
FirstIncluded(text, table) ==
  IF \E r \in 1..Len(table) : includes(text, table[r][1])
  THEN CHOOSE r \in 1..Len(table) :
         /\ includes(text, table[r][1])
         /\ \A q \in 1..(r - 1) : ~includes(text, table[q][1])
  ELSE 0

\* key, position of the 1, and the two regional scalars of each city
F_packageCities == <<
  <<K.new_york, 1, 800, 300>>, <<K.los_angeles, 2, 200, 900>>,
  <<K.boston, 3, 900, 100>>, <<K.chicago, 4, 400, 400>>,
  <<K.dallas, 5, 100, 600>>, <<K.san_francisco, 6, 100, 800>>,
  <<K.denver, 7, 200, 200>>, <<K.green_bay, 8, 300, 100>> >>

F_queryCities == <<
  <<K.new_york, 1, 800, 300>>, <<K.nyc, 1, 800, 300>>,
  <<K.los_angeles, 2, 200, 900>>, <<K.la, 2, 200, 900>>,
  <<K.boston, 3, 900, 100>>, <<K.chicago, 4, 400, 400>>,
  <<K.dallas, 5, 100, 600>>, <<K.san_francisco, 6, 100, 800>>,
  <<K.sf, 6, 100, 800>>, <<K.denver, 7, 200, 200>>,
  <<K.green_bay, 8, 300, 100>> >>

LocationBlock(text, table) ==
  LET r == FirstIncluded(text, table)
  IN  IF r = 0 THEN OneHot(0, 8) \o <<FS \div 2, FS \div 2>>
      ELSE OneHot(table[r][2], 8) \o <<table[r][3], table[r][4]>>

encodeLocationWithProximity(location) ==
  LocationBlock(toLowerCase(location), F_packageCities)

F_extractLocationFromQuery(query) == LocationBlock(query, F_queryCities)

\* key, position of the 1, and the three intensity scalars of each sport
F_sports == <<
  <<K.basketball, 1, 900, 800, 700>>, <<K.baseball, 2, 600, 900, 800>>,
  <<K.football, 3, 700, 600, 900>>, <<K.hockey, 4, 800, 700, 800>> >>

\* team -> row of its sport in F_sports
F_teams == <<
  <<K.knicks, 1>>, <<K.lakers, 1>>, <<K.celtics, 1>>, <<K.bulls, 1>>,
  <<K.yankees, 2>>, <<K.red_sox, 2>>, <<K.dodgers, 2>>,
  <<K.cowboys, 3>>, <<K.patriots, 3>>, <<K.packers, 3>> >>

SportBlock(r) ==
  IF r = 0 THEN OneHot(0, 4) \o <<FS \div 2, FS \div 2, FS \div 2>>
  ELSE OneHot(F_sports[r][2], 4) \o <<F_sports[r][3], F_sports[r][4], F_sports[r][5]>>

encodeSportWithTeams(sport) == SportBlock(FirstIncluded(toLowerCase(sport), F_sports))

F_extractSportFromQuery(query) ==
  LET direct == FirstIncluded(query, F_sports)
      team == FirstIncluded(query, F_teams)
  IN  IF direct # 0 THEN SportBlock(direct)
      ELSE IF team # 0 THEN SportBlock(F_teams[team][2])
      ELSE SportBlock(0)

\* FS * Math.log(x) / 10 to the nearest integer, for the arguments that occur
LogTenth(x) ==
  CASE x = 51 -> 393 [] x = 101 -> 462 [] x = 151 -> 502 [] x = 201 -> 530 [] x = 251 -> 553
    [] x = 451 -> 611 [] x = 501 -> 622 [] x = 801 -> 669 [] x = 901 -> 680
    [] x = 1001 -> 691 [] x = 1201 -> 709

Flag(b) == IF b THEN FS ELSE 0

encodePriceFeatures(price) ==
  << Min((price * FS) \div 1000, FS),
     Flag(price < 100),
     Flag(price >= 100 /\ price < 500),
     Flag(price >= 500 /\ price < 1000),
     Flag(price >= 1000),
     LogTenth(price + 1) >>

encodeHospitalityFeatures(level, type) ==
  LET levelScore == CASE level = "Bronze" -> FS \div 4
                      [] level = "Silver" -> FS \div 2
                      [] level = "Gold" -> (3 * FS) \div 4
                      [] level = "Platinum" -> FS
                      [] OTHER -> FS \div 2
  IN  << levelScore,
         Flag(includes(toLowerCase(type), K.vip)),
         Flag(includes(toLowerCase(type), K.club)),
         Flag(includes(toLowerCase(type), K.premium)),
         Flag(includes(toLowerCase(type), K.standard)) >>

prestigiousVenues == {K.madison_square_garden, K.staples_center, K.fenway_park,
                      K.lambeau_field, K.yankee_stadium, K.td_garden}

encodeVenueFeatures(venue) ==
  LET lowerVenue == toLowerCase(venue)
  IN  << IF \E v \in prestigiousVenues : includes(lowerVenue, v) THEN FS ELSE FS \div 2,
         Flag(includes(lowerVenue, K.center) \/ includes(lowerVenue, K.arena)),
         Flag(includes(lowerVenue, K.stadium)),
         Flag(includes(lowerVenue, K.field) \/ includes(lowerVenue, K.park)) >>

\* the integer nearest to FS * n / d
Frac(n, d) == (2 * n * FS + d) \div (2 * d)

\* now is the value of new Date() when the record is encoded
encodeDateFeatures(date, now) ==
  LET daysDiff == Abs(date - now)
  IN  << Min(Frac(daysDiff, 365), FS),
         Frac(getMonth(date), 12),
         Frac(getDay(date), 7),
         Flag(daysDiff < 7),
         Flag(daysDiff < 30) >>

encodeAvailabilityFeatures(available) ==
  << Min(Frac(available, 100), FS),
     Flag(available > 50),
     Flag(available < 10),
     Flag(available = 0) >>

encodeTextFeatures(description) ==
  LET lowerDesc == toLowerCase(description)
      keywords == <<K.luxury, K.premium, K.exclusive, K.family, K.group,
                    K.corporate, K.special>>
  IN  [i \in 1..7 |-> Flag(includes(lowerDesc, keywords[i]))]

encodeSeatingFeatures(category) ==
  LET lowerCategory == toLowerCase(category)
  IN  << Flag(includes(lowerCategory, K.floor) \/ includes(lowerCategory, K.court)),
         Flag(includes(lowerCategory, K.lower)),
         Flag(includes(lowerCategory, K.upper)),
         Flag(includes(lowerCategory, K.suite) \/ includes(lowerCategory, K.box)),
         Flag(includes(lowerCategory, K.club)) >>

\* while (features.length < D) features.push(0); features.slice(0, D)
PadZero(features) ==
  AsSeq([i \in 1..embeddingDimension |->
           IF i <= Len(features) THEN features[i] ELSE 0])

RECURSIVE Flatten(_)
\* [...a, ...b, ...]: the blocks, each a pair of its name and its features,
\* spread into one array
Flatten(blocks) ==
  IF blocks = <<>> THEN <<>> ELSE Head(blocks)[2] \o Flatten(Tail(blocks))

\* where each block of a features array starts (from 0) and how wide it is
Layout(blocks) ==
  AsSeq([i \in 1..Len(blocks) |->
           [name |-> blocks[i][1],
            offset |-> Len(Flatten(SubSeq(blocks, 1, i - 1))),
            width |-> Len(blocks[i][2])]])

F_packageBlocks(pkg, now) == <<
  <<"location", encodeLocationWithProximity(pkg.location)>>,
  <<"sport", encodeSportWithTeams(pkg.sportType)>>,
  <<"price", encodePriceFeatures(pkg.price)>>,
  <<"hospitality", encodeHospitalityFeatures(pkg.hospitalityLevel, pkg.hospitalityType)>>,
  <<"venue", encodeVenueFeatures(pkg.venue)>>,
  <<"date", encodeDateFeatures(pkg.date, now)>>,
  <<"availability", encodeAvailabilityFeatures(pkg.availableTickets)>>,
  <<"text", encodeTextFeatures(pkg.description)>>,
  <<"seating", encodeSeatingFeatures(pkg.seatingCategory)>> >>

F_createPackageEmbedding(pkg, now) == PadZero(Flatten(F_packageBlocks(pkg, now)))

\* createFallbackEmbedding's blocks: encodeBasicLocation, encodeBasicSport,
\* the price tier and encodeBasicHospitality
fallbackBlocks(pkg) ==
  LET cities == <<K.new_york, K.los_angeles, K.boston, K.chicago, K.dallas,
                  K.san_francisco, K.denver, K.green_bay>>
      sports == <<K.basketball, K.baseball, K.football, K.hockey>>
      level == CASE pkg.hospitalityLevel = "Bronze" -> FS \div 4
                 [] pkg.hospitalityLevel = "Silver" -> FS \div 2
                 [] pkg.hospitalityLevel = "Gold" -> (3 * FS) \div 4
                 [] pkg.hospitalityLevel = "Platinum" -> FS
                 [] OTHER -> FS \div 2
  IN  << <<"location", AsSeq([c \in 1..Len(cities) |->
                        Flag(includes(toLowerCase(pkg.location), cities[c]))])>>,
         <<"sport", AsSeq([c \in 1..Len(sports) |->
                        Flag(toLowerCase(pkg.sportType) = sports[c])])>>,
         <<"price", <<Min(Frac(pkg.price, 1000), FS)>> >>,
         <<"hospitality", <<level>> >> >>

\* createFallbackEmbedding: the blocks, padded with Math.random() * 0.1 (the
\* generator's draws are those of a stream that starts from the seed)
createFallbackEmbedding(pkg, seed) ==
  LET basic == Flatten(fallbackBlocks(pkg))
  IN  AsSeq([i \in 1..embeddingDimension |->
               IF i <= Len(basic) THEN basic[i]
               ELSE (seed * i) % (FS \div 10)])

extractPricePreferences(query) ==
  LET tier == IF \/ includes(query, K.cheap) \/ includes(query, K.budget)
                 \/ includes(query, K.affordable) THEN 1
              ELSE IF includes(query, K.premium) \/ includes(query, K.expensive) THEN 3
              ELSE IF includes(query, K.vip) \/ includes(query, K.luxury) THEN 4
              ELSE IF includes(query, K.mid) \/ includes(query, K.moderate) THEN 2
              ELSE 0
      \* 1000 * priceLevel
      level == CASE tier = 1 -> 200 [] tier = 3 -> 800 [] tier = 4 -> 1000
                 [] OTHER -> 500
  IN  << (level * FS) \div 1000, Flag(tier = 1), Flag(tier = 2), Flag(tier = 3),
         Flag(tier = 4), LogTenth(level + 1) >>

extractHospitalityPreferences(query) ==
  LET f == IF includes(query, K.vip) THEN 1
           ELSE IF includes(query, K.club) THEN 2
           ELSE IF includes(query, K.premium) THEN 3
           ELSE IF includes(query, K.standard) \/ includes(query, K.basic) THEN 4
           ELSE 0
      level == CASE f = 1 -> FS [] f = 2 -> (3 * FS) \div 4 [] f = 3 -> (3 * FS) \div 4
                 [] f = 4 -> FS \div 4 [] OTHER -> FS \div 2
  IN  <<level>> \o OneHot(f, 4)

extractVenuePreferences(query) ==
  << FS \div 2,
     Flag(includes(query, K.center) \/ includes(query, K.arena)),
     Flag(includes(query, K.stadium)),
     Flag(includes(query, K.field) \/ includes(query, K.park)) >>

\* now is the value of new Date() when the query is encoded
extractDatePreferences(query, now) ==
  LET timePreference ==
        IF includes(query, K.tonight) \/ includes(query, K.today) THEN FS \div 10
        ELSE IF includes(query, K.this_week) THEN FS \div 5
        ELSE IF includes(query, K.this_month) THEN (3 * FS) \div 10
        ELSE FS \div 2
  IN  << timePreference,
         Frac(getMonth(now), 12),
         Frac(getDay(now), 7),
         Flag(includes(query, K.week)),
         Flag(includes(query, K.month)) >>

extractGroupPreferences(query) ==
  LET groupMatch == matchGroup(query, {K.people, K.person, K.group, K.friends, K.family})
      size == IF groupMatch.set THEN Min(Frac(groupMatch.v, 10), FS) ELSE FS \div 2
      \* availability > 0.5
      needsMore == groupMatch.set /\ groupMatch.v > 4
  IN  << size, Flag(includes(query, K.group)), Flag(includes(query, K.family)),
         Flag(needsMore) >>

extractIntentFeatures(query) ==
  << Flag(includes(query, K.luxury)),
     Flag(includes(query, K.family)),
     Flag(includes(query, K.corporate)),
     Flag(includes(query, K.date) \/ includes(query, K.romantic)),
     Flag(includes(query, K.celebration) \/ includes(query, K.special)),
     Flag(includes(query, K.business)),
     Flag(includes(query, K.entertainment)) >>

extractSeatingPreferences(query) ==
  << Flag(includes(query, K.floor) \/ includes(query, K.court)),
     Flag(includes(query, K.lower)),
     Flag(includes(query, K.upper)),
     Flag(includes(query, K.suite) \/ includes(query, K.box)),
     Flag(includes(query, K.club)) >>

F_queryBlocks(query, now) ==
  LET lowerQuery == toLowerCase(query)
  IN  << <<"location", F_extractLocationFromQuery(lowerQuery)>>,
         <<"sport", F_extractSportFromQuery(lowerQuery)>>,
         <<"price", extractPricePreferences(lowerQuery)>>,
         <<"hospitality", extractHospitalityPreferences(lowerQuery)>>,
         <<"venue", extractVenuePreferences(lowerQuery)>>,
         <<"date", extractDatePreferences(lowerQuery, now)>>,
         <<"group", extractGroupPreferences(lowerQuery)>>,
         <<"intent", extractIntentFeatures(lowerQuery)>>,
         <<"seating", extractSeatingPreferences(lowerQuery)>> >>

F_createQueryEmbedding(query, now) == PadZero(Flatten(F_queryBlocks(query, now)))

\* A JavaScript value handed to cosineSimilarity: a number[] or a Promise
Arr(v) == [kind |-> "array", v |-> v]
PromiseOf(v) == [kind |-> "promise", v |-> v]
\* x.length; -1 stands for undefined (a Promise has no length)
JsLength(x) == IF x.kind = "array" THEN Len(x.v) ELSE -1

RECURSIVE SqrtIn(_, _, _)
\* the largest r in lo..hi with r * r <= n, given lo * lo <= n
SqrtIn(n, lo, hi) ==
  IF lo >= hi THEN lo
  ELSE LET mid == (lo + hi + 1) \div 2
       IN  IF mid * mid <= n THEN SqrtIn(n, mid, hi) ELSE SqrtIn(n, lo, mid - 1)

Isqrt(n) == SqrtIn(n, 0, 46340)

\* dotProduct / (sqrt(normA) * sqrt(normB)) in units of 1 / (FS * FS), computed
\* to half a hundredth: the norms are taken to 4 digits
CosineOf(dotProduct, normA, normB) ==
  LET ra == Isqrt(normA * 100)
      rb == Isqrt(normB * 100)
      perA == (dotProduct * 100) \div ra
      twoHundredCos == (perA * 200) \div rb
  IN  twoHundredCos * ((FS * FS) \div 200)

F_cosineSimilarity(a, b) ==
  IF JsLength(a) # JsLength(b) THEN 0
  ELSE LET dotProduct == DotTo(a.v, b.v, Len(a.v))
           normA == DotTo(a.v, a.v, Len(a.v))
           normB == DotTo(b.v, b.v, Len(b.v))
       IN  IF normA = 0 \/ normB = 0 THEN 0
           ELSE CosineOf(dotProduct, normA, normB)

\* Math.round(x * 100) of a similarity x
F_roundScore(similarity) == (similarity + (FS * FS) \div 200) \div ((FS * FS) \div 100)

\* the reasons generateReasons pushes for what the query names
F_matchedReasons(query, pkg) ==
  LET lowerQuery == toLowerCase(query)
  IN    (IF includes(lowerQuery, toLowerCase(pkg.location))
         THEN <<Reason("location", 0)>> ELSE <<>>)
        \o (IF includes(lowerQuery, toLowerCase(pkg.sportType))
            THEN <<Reason("sport", 0)>> ELSE <<>>)
        \o (IF /\ includes(lowerQuery, K.budget) \/ includes(lowerQuery, K.cheap)
               /\ pkg.price < 200
            THEN <<Reason("budget", 0)>> ELSE <<>>)
        \o (IF /\ includes(lowerQuery, K.premium) \/ includes(lowerQuery, K.vip)
               /\ pkg.hospitalityLevel \in {"Platinum", "Gold"}
            THEN <<Reason("premium", 0)>> ELSE <<>>)
        \o (IF includes(lowerQuery, K.vip) /\ includes(pkg.hospitalityType, K.VIP)
            THEN <<Reason("vip", 0)>> ELSE <<>>)

\* F_matchedReasons of each query of Queries and each package of Pool
MatchedReasons ==
  AsSeq([q \in 1..Len(Queries) |->
           AsSeq([p \in 1..Len(Pool) |-> F_matchedReasons(Queries[q], Pool[p])])])

\* a generateReasons that always ends with the percentage
AlwaysPercent(q, pkg, similarity) ==
  MatchedReasons[q][pkg.id] \o <<Reason("generic", F_roundScore(similarity))>>

\* generateReasons(Queries[q], pkg, similarity)
F_generateReasons(q, pkg, similarity) ==
  LET reasons ==
        MatchedReasons[q][pkg.id]
        \o (IF 10 * similarity > 8 * FS * FS THEN <<Reason("excellent", 0)>>
            ELSE IF 10 * similarity > 6 * FS * FS THEN <<Reason("good", 0)>>
            ELSE <<>>)
  IN  IF Len(reasons) > 0 THEN reasons
      ELSE <<Reason("generic", F_roundScore(similarity))>>

\* the day the engine is constructed: 2024-03-10, a Sunday
Now0 == 70

\* createPackageEmbedding of each package of Pool on each day of the model
PackageEmbeddings ==
  AsSeq([p \in 1..Len(Pool) |->
           AsSeq([d \in 1..(MaxTick + 1) |->
                    F_createPackageEmbedding(Pool[p], Now0 + d - 1)])])

createPackageEmbedding(pkg, now) == PackageEmbeddings[pkg.id][now - Now0 + 1]

\* createQueryEmbedding of each query of Queries on each day of the model
QueryEmbeddings ==
  AsSeq([q \in 1..Len(Queries) |->
           AsSeq([d \in 1..(MaxTick + 1) |->
                    F_createQueryEmbedding(Queries[q], Now0 + d - 1)])])

createQueryEmbedding(q, now) == QueryEmbeddings[q][now - Now0 + 1]

\* fallbackSearch: createQueryEmbedding is async and is not awaited, so
\* queryEmbedding is the Promise it returns
fallbackSearch(pkgs, cache, q, k, now) ==
  LET queryEmbedding == PromiseOf(createQueryEmbedding(q, now))
      cached == CachedPositions(pkgs, cache)
      scores == AsSeq([n \in 1..Len(cached) |->
                   LET pkg == pkgs[cached[n]]
                       similarity == F_cosineSimilarity(queryEmbedding,
                                                        Arr(cache[pkg.id]))
                   IN  [pkg |-> cached[n],
                        score |-> F_roundScore(similarity),
                        reasons |-> F_generateReasons(q, pkg, similarity)]])
  IN  Slice(SortDesc(FilterAbove(scores, 30)), k)

(***************************************************************************)
(* The index backend (faiss-node IndexFlatIP): add appends vectors, search *)
(* returns k (label, distance) pairs by descending inner product, labels   *)
(* counted from 0 in the order of addition.  The order of equal distances  *)
(* is the backend's: lowTiesFirst chooses it.  Past the last vector the    *)
(* pairs carry the label -1.                                               *)
(***************************************************************************)
IndexSearch(vectors, queryVector, k, lowTiesFirst) ==
  LET n == Len(vectors)
      ip == AsSeq([i \in 1..n |->
                     DotTo(vectors[i], queryVector, Len(queryVector))])
      Before(i, j) ==
        \/ ip[i] > ip[j]
        \/ ip[i] = ip[j] /\ (IF lowTiesFirst THEN i < j ELSE i > j)
      pos == AsSeq([i \in 1..n |-> 1 + Cardinality({j \in 1..n : Before(j, i)})])
  IN  AsSeq([p \in 1..k |->
               IF p <= n
               THEN LET i == CHOOSE i \in 1..n : pos[i] = p
                    IN  [label |-> i - 1, distance |-> ip[i]]
               ELSE [label |-> -1, distance |-> -1]])

\* lines 313-333 of findRecommendationsByQuery: the results of the search
\* mapped to recommendations and filtered
indexRecommendations(pkgs, results, q) ==
  LET valid == SelectSeq(results,
                         LAMBDA r : r.label >= 0 /\ r.label < Len(pkgs))
      recommendations ==
        AsSeq([n \in 1..Len(valid) |->
                 LET pkg == pkgs[valid[n].label + 1]
                     similarity == valid[n].distance
                 IN  [pkg |-> valid[n].label + 1,
                      score |-> F_roundScore(Max(0, similarity)),
                      reasons |-> F_generateReasons(q, pkg, similarity)]])
  IN  FilterAbove(recommendations, 30)

(***************************************************************************)
(* The state.  One engine is under test in a behaviour (sut): it is        *)
(* constructed over the catalog, then rank requests are served.            *)
(***************************************************************************)
VARIABLES
  sut,                \* the engine constructed: "attr", "vector" or "faiss"
  packages,           \* this.packages, the catalog
  today,              \* the wall clock, a day of 2024
  faissIndex,         \* this.faissIndex: null or the vectors added to it
  packageEmbeddings,  \* FAISSSearchService.packageEmbeddings: id -> vector
  isInitialized,      \* FAISSSearchService.isInitialized
  faissPc,            \* where initializeIndex stands
  faissI,             \* the position of generatePackageEmbeddings' loop
  vecEmbeddings,      \* VectorRecommendationEngine.packageEmbeddings
  vecI,               \* the position of initializeEmbeddings' loop
  microtasks,         \* the continuations awaiting their turn, in order
  vecCall,            \* the query of the findRecommendationsByQuery call awaiting
  last,               \* the rank request completed last
  probe,              \* a function of the engines called on its own: the
                      \* arguments, and the value returned once it has run
  chat,               \* ChatInterface: the service behind it, userPreferences,
                      \* the query sent last and the number of queries sent
  tester              \* SearchPerformanceTester.waitForInitialization: where
                      \* it stands, and `waited` in units of checkInterval

vars == <<sut, packages, today, faissIndex, packageEmbeddings, isInitialized,
          faissPc, faissI, vecEmbeddings, vecI, microtasks, vecCall, last,
          probe, chat, tester>>

engineVars == <<sut, packages, today, faissIndex, packageEmbeddings,
                isInitialized, faissPc, faissI, vecEmbeddings, vecI,
                microtasks, vecCall, last>>

faissVars == <<faissIndex, packageEmbeddings, isInitialized, faissPc, faissI>>
vecVars == <<vecEmbeddings, vecI, microtasks, vecCall>>

Null == [exists |-> FALSE, vectors |-> <<>>]
EmptyMap == [id \in {} |-> <<>>]
NoCall == [engine |-> "none", input |-> 0, k |-> 0, path |-> "none",
           outcome |-> "none", result |-> <<>>]

\* a completed rank request: what was asked, the path that served it, whether
\* the promise resolved and the value returned
Call(engine, input, k, path, result) ==
  [engine |-> engine, input |-> input, k |-> k, path |-> path,
   outcome |-> "resolved", result |-> result]

Complete(call) == last' = call

NoProbe == [fn |-> "none", arg |-> 0, done |-> FALSE, out |-> 0]
\* no chat is open, and nothing waits for the index
NoChat ==
  [service |-> "none", userPreferences |-> PrefsSet[1], query |-> 0, sent |-> 0,
   inputValue |-> 0, isLoading |-> FALSE, messages |-> <<>>, cart |-> <<>>,
   pending |-> <<>>]
NoTester == [pc |-> "idle", waited |-> 0]
\* a function about to be called on an argument, and the call returning
Probe(fn, arg) == [fn |-> fn, arg |-> arg, done |-> FALSE, out |-> 0]
Return(fn, out) ==
  /\ probe.fn = fn /\ ~probe.done
  /\ probe' = [probe EXCEPT !.done = TRUE, !.out = out]
  /\ UNCHANGED <<engineVars, chat, tester>>

\* The constructors: RecommendationEngine stores the catalog;
\* VectorRecommendationEngine starts initializeEmbeddings, which runs to its
\* first await; FAISSSearchService starts initializeIndex, which runs to the
\* await of the dynamic import.
Init ==
  /\ sut \in {"attr", "vector", "faiss"}
  /\ packages \in Catalogs
  /\ today = Now0
  /\ faissIndex = Null
  /\ packageEmbeddings = EmptyMap
  /\ isInitialized = FALSE
  /\ faissPc = IF sut = "faiss" THEN "import" ELSE "idle"
  /\ faissI = 0
  /\ vecEmbeddings = EmptyMap
  /\ vecI = IF sut = "vector" /\ Len(packages) > 0 THEN 1 ELSE 0
  /\ microtasks = IF sut = "vector" /\ Len(packages) > 0 THEN <<"init">> ELSE <<>>
  /\ vecCall = 0
  /\ last = NoCall
  /\ probe = NoProbe
  /\ chat = NoChat
  /\ tester = NoTester

\* a day passes
Tick ==
  /\ today < Now0 + MaxTick
  /\ today' = today + 1
  /\ UNCHANGED <<chat, tester, probe, sut, packages, faissVars, vecVars, last>>

(***************************************************************************)
(* RecommendationEngine                                                    *)
(***************************************************************************)
AttrRequest(p) ==
  /\ sut = "attr"
  /\ Complete(Call("attr", p, 5, "attr",
                   findRecommendations(packages, PrefsSet[p])))
  /\ UNCHANGED <<chat, tester, probe, sut, packages, today, faissVars, vecVars>>

(***************************************************************************)
(* VectorRecommendationEngine                                              *)
(***************************************************************************)
\* initializeEmbeddings resumes after `await this.createPackageEmbedding(pkg)`:
\* it caches the vector and goes on to the next package, awaiting again
VecInitStep ==
  /\ microtasks # <<>> /\ Head(microtasks) = "init"
  /\ vecEmbeddings' =
       [id \in DOMAIN vecEmbeddings \cup {packages[vecI].id} |->
          IF id = packages[vecI].id THEN V_createPackageEmbedding(packages[vecI])
          ELSE vecEmbeddings[id]]
  /\ IF vecI < Len(packages)
     THEN /\ vecI' = vecI + 1
          /\ microtasks' = Tail(microtasks) \o <<"init">>
     ELSE /\ vecI' = 0
          /\ microtasks' = Tail(microtasks)
  /\ UNCHANGED <<chat, tester, probe, sut, packages, today, faissVars, vecCall, last>>

\* findRecommendationsByQuery(query) runs to `await this.createQueryEmbedding`
VecFindCall(q) ==
  /\ sut = "vector"
  /\ vecCall = 0
  /\ vecCall' = q
  /\ microtasks' = microtasks \o <<"find">>
  /\ UNCHANGED <<chat, tester, probe, sut, packages, today, faissVars, vecEmbeddings, vecI, last>>

\* findRecommendationsByQuery resumes: it scores the cached packages and returns
VecFindStep ==
  /\ microtasks # <<>> /\ Head(microtasks) = "find"
  /\ Complete(Call("vector", vecCall, 5, "cosine",
                   V_rank(packages, vecEmbeddings, Queries[vecCall])))
  /\ vecCall' = 0
  /\ microtasks' = Tail(microtasks)
  /\ UNCHANGED <<chat, tester, probe, sut, packages, today, faissVars, vecEmbeddings, vecI>>

(***************************************************************************)
(* FAISSSearchService.initializeIndex                                      *)
(***************************************************************************)
\* import('faiss-node') resolves: the index is created and
\* generatePackageEmbeddings starts
FaissImportOk ==
  /\ faissPc = "import"
  /\ faissIndex' = [exists |-> TRUE, vectors |-> <<>>]
  /\ IF Len(packages) > 0
     THEN faissPc' = "embed" /\ faissI' = 1
     ELSE faissPc' = "build" /\ faissI' = 0
  /\ UNCHANGED <<chat, tester, probe, sut, packages, today, packageEmbeddings, isInitialized,
                 vecVars, last>>

\* a catch block that declares the service ready
FailureIgnored ==
  /\ faissPc = "import"
  /\ faissPc' = "failed"
  /\ isInitialized' = TRUE
  /\ UNCHANGED <<chat, tester, probe, sut, packages, today, faissIndex, packageEmbeddings, faissI,
                 vecVars, last>>

\* import('faiss-node') rejects: the catch block
FaissImportFail ==
  /\ faissPc = "import"
  /\ faissPc' = "failed"
  /\ isInitialized' = FALSE
  /\ UNCHANGED <<chat, tester, probe, sut, packages, today, faissIndex, packageEmbeddings, faissI,
                 vecVars, last>>

\* one round of generatePackageEmbeddings' loop
FaissEmbedStep ==
  /\ faissPc = "embed"
  /\ packageEmbeddings' =
       [id \in DOMAIN packageEmbeddings \cup {packages[faissI].id} |->
          IF id = packages[faissI].id
          THEN createPackageEmbedding(packages[faissI], today)
          ELSE packageEmbeddings[id]]
  /\ IF faissI < Len(packages)
     THEN faissI' = faissI + 1 /\ faissPc' = "embed"
     ELSE faissI' = 0 /\ faissPc' = "build"
  /\ UNCHANGED <<chat, tester, probe, sut, packages, today, faissIndex, isInitialized, vecVars,
                 last>>

\* the fields of a package that createPackageEmbedding calls toLowerCase on
\* (lines 167, 185, 215, 230, 273); the call throws if one is not a string
EncodedTexts == {"location", "sportType", "hospitalityType", "venue", "seatingCategory"}

\* one round of generatePackageEmbeddings' loop whose createPackageEmbedding
\* throws because the package lacks the field: the catch block caches
\* createFallbackEmbedding(pkg), which reads location and sportType itself
\* (encodeBasicLocation, encodeBasicSport) and throws in its turn when one of
\* them is what is missing.  generatePackageEmbeddings then rejects, and the
\* catch block of initializeIndex runs.  noise is what Math.random returns.
FaissEmbedFails(field, noise) ==
  /\ faissPc = "embed"
  /\ IF field \in {"location", "sportType"}
     THEN /\ faissPc' = "failed"
          /\ faissI' = 0
          /\ isInitialized' = FALSE
          /\ UNCHANGED packageEmbeddings
     ELSE /\ packageEmbeddings' =
               [id \in DOMAIN packageEmbeddings \cup {packages[faissI].id} |->
                  IF id = packages[faissI].id
                  THEN createFallbackEmbedding(packages[faissI], noise)
                  ELSE packageEmbeddings[id]]
          /\ IF faissI < Len(packages)
             THEN faissI' = faissI + 1 /\ faissPc' = "embed"
             ELSE faissI' = 0 /\ faissPc' = "build"
          /\ UNCHANGED isInitialized
  /\ UNCHANGED <<chat, tester, probe, sut, packages, today, faissIndex, vecVars, last>>

\* the vectors buildIndex hands to the index, in catalog order
IndexedVectors ==
  LET cached == CachedPositions(packages, packageEmbeddings)
  IN  AsSeq([n \in 1..Len(cached) |-> packageEmbeddings[packages[cached[n]].id]])

\* a buildIndex that adds nothing and returns
BuildsNothing ==
  /\ faissPc = "build"
  /\ Len(IndexedVectors) = 0
  /\ faissPc' = "added"
  /\ UNCHANGED <<chat, tester, probe, sut, packages, today, faissIndex, packageEmbeddings,
                 isInitialized, faissI, vecVars, last>>

\* buildIndex finds no embedding and throws: the catch block
FaissBuildEmpty ==
  /\ faissPc = "build"
  /\ Len(IndexedVectors) = 0
  /\ faissPc' = "failed"
  /\ isInitialized' = FALSE
  /\ UNCHANGED <<chat, tester, probe, sut, packages, today, faissIndex, packageEmbeddings, faissI,
                 vecVars, last>>

\* buildIndex adds the vectors to the index
FaissBuildAdd ==
  /\ faissPc = "build"
  /\ Len(IndexedVectors) > 0
  /\ faissIndex' = [exists |-> TRUE, vectors |-> IndexedVectors]
  /\ faissPc' = "added"
  /\ UNCHANGED <<chat, tester, probe, sut, packages, today, packageEmbeddings, isInitialized, faissI,
                 vecVars, last>>

\* faissIndex.add throws: the catch block
FaissBuildAddFails ==
  /\ faissPc = "build"
  /\ Len(IndexedVectors) > 0
  /\ faissPc' = "failed"
  /\ isInitialized' = FALSE
  /\ UNCHANGED <<chat, tester, probe, sut, packages, today, faissIndex, packageEmbeddings, faissI,
                 vecVars, last>>

\* initializeIndex resumes after buildIndex
FaissReady ==
  /\ faissPc = "added"
  /\ isInitialized' = TRUE
  /\ faissPc' = "done"
  /\ UNCHANGED <<chat, tester, probe, sut, packages, today, faissIndex, packageEmbeddings, faissI,
                 vecVars, last>>

(***************************************************************************)
(* FAISSSearchService.findRecommendationsByQuery                           *)
(***************************************************************************)
\* the index is not ready: fallbackSearch
FaissFallback(q, k) ==
  /\ sut = "faiss"
  /\ ~isInitialized \/ ~faissIndex.exists
  /\ Complete(Call("faiss", q, k, "fallback",
                   fallbackSearch(packages, packageEmbeddings, q, k, today)))
  /\ UNCHANGED <<chat, tester, probe, sut, packages, today, faissVars, vecVars>>

\* the index serves the request
FaissIndexSearch(q, k, lowTiesFirst) ==
  /\ sut = "faiss"
  /\ isInitialized /\ faissIndex.exists
  /\ LET queryEmbedding == createQueryEmbedding(q, today)
         results == IndexSearch(faissIndex.vectors, queryEmbedding, k, lowTiesFirst)
     IN  Complete(Call("faiss", q, k, "index",
                       indexRecommendations(packages, results, q)))
  /\ UNCHANGED <<chat, tester, probe, sut, packages, today, faissVars, vecVars>>

\* a catch block that gives the index up
SearchFailureDisables(q, k) ==
  /\ sut = "faiss"
  /\ isInitialized /\ faissIndex.exists
  /\ Complete(Call("faiss", q, k, "catch",
                   fallbackSearch(packages, packageEmbeddings, q, k, today)))
  /\ isInitialized' = FALSE
  /\ UNCHANGED <<chat, tester, probe, sut, packages, today, faissIndex,
                 packageEmbeddings, faissPc, faissI, vecVars>>

\* faissIndex.search throws: the catch block calls fallbackSearch
FaissSearchFails(q, k) ==
  /\ sut = "faiss"
  /\ isInitialized /\ faissIndex.exists
  /\ Complete(Call("faiss", q, k, "catch",
                   fallbackSearch(packages, packageEmbeddings, q, k, today)))
  /\ UNCHANGED <<chat, tester, probe, sut, packages, today, faissVars, vecVars>>

\* getPerformanceStats, which reads the fields and writes none
getPerformanceStats ==
  [isInitialized |-> isInitialized,
   packageCount |-> Len(packages),
   embeddingDimension |-> embeddingDimension,
   indexType |-> IF faissIndex.exists THEN "FAISS IndexFlatIP"
                 ELSE "Fallback Cosine Similarity"]

Next ==
  \/ Tick
  \/ \E p \in 1..Len(PrefsSet) : AttrRequest(p)
  \/ VecInitStep
  \/ \E q \in 1..Len(Queries) : VecFindCall(q)
  \/ VecFindStep
  \/ FaissImportOk
  \/ FaissImportFail
  \/ FaissEmbedStep
  \/ FaissBuildEmpty
  \/ FaissBuildAdd
  \/ FaissBuildAddFails
  \/ FaissReady
  \/ \E q \in 1..Len(Queries), k \in 0..MaxK : FaissFallback(q, k)
  \/ \E q \in 1..Len(Queries), k \in 0..MaxK, t \in BOOLEAN : FaissIndexSearch(q, k, t)
  \/ \E q \in 1..Len(Queries), k \in 0..MaxK : FaissSearchFails(q, k)

Spec == Init /\ [][Next]_vars

(***************************************************************************)
(* initializeIndex on its own, over catalogs whose records may lack a      *)
(* field.                                                                  *)
(***************************************************************************)
EmbedInit == Init /\ sut = "faiss"

EmbedNext ==
  \/ FaissImportOk
  \/ FaissImportFail
  \/ FaissEmbedStep
  \/ \E field \in EncodedTexts, noise \in {0, 37} : FaissEmbedFails(field, noise)
  \/ FaissBuildEmpty
  \/ FaissBuildAdd
  \/ FaissBuildAddFails
  \/ FaissReady

EmbedSpec == EmbedInit /\ [][EmbedNext]_vars

(***************************************************************************)
(* The functions of the engines called on their own.  No engine is         *)
(* constructed; the probe holds one call, drawn from the inputs below.     *)
(***************************************************************************)
NoEngine ==
  /\ sut = "none"
  /\ packages = <<>>
  /\ today = Now0
  /\ faissIndex = Null
  /\ packageEmbeddings = EmptyMap
  /\ isInitialized = FALSE
  /\ faissPc = "idle"
  /\ faissI = 0
  /\ vecEmbeddings = EmptyMap
  /\ vecI = 0
  /\ microtasks = <<>>
  /\ vecCall = 0
  /\ last = NoCall

\* location texts: the known cities as the catalog writes them, and others
Locations == {
  <<"N","e","w"," ","Y","o","r","k">>, <<"L","o","s"," ","A","n","g","e","l","e","s">>, <<"B","o","s","t","o","n">>, <<"C","h","i","c","a","g","o">>, <<"D","a","l","l","a","s">>,
  <<"S","a","n"," ","F","r","a","n","c","i","s","c","o">>, <<"D","e","n","v","e","r">>, <<"G","r","e","e","n"," ","B","a","y">>, <<"M","i","a","m","i">>, <<"A","t","l","a","n","t","a">>,
  <<"S","e","a","t","t","l","e">>, <<"N","e","w"," ","Y","o","r","k",","," ","N","Y">> }

\* encodeLocationWithProximity(L) and extractLocationFromQuery(L.toLowerCase())
LocationBlocks ==
  Return("location", <<encodeLocationWithProximity(probe.arg),
                       F_extractLocationFromQuery(toLowerCase(probe.arg))>>)

\* the three embedding builders on a package of the pool, a query and a day
Embeddings ==
  LET pkg == Pool[probe.arg.pkg]
      q == probe.arg.q
      day == probe.arg.day
  IN  Return("embedding",
        [package |-> createPackageEmbedding(pkg, day),
         query |-> createQueryEmbedding(q, day),
         fallback |-> createFallbackEmbedding(pkg, probe.arg.seed),
         layout |-> [package |-> Layout(F_packageBlocks(pkg, day)),
                     query |-> Layout(F_queryBlocks(Queries[q], day)),
                     fallback |-> Layout(fallbackBlocks(pkg))]])

\* vectors of up to MaxDim features, each 0, 1/2 or 1 (given in halves)
Vectors == UNION {[1..n -> 0..2] : n \in 0..MaxDim}

\* both cosineSimilarity methods on a pair of vectors
Cosine ==
  LET a == probe.arg.a
      b == probe.arg.b
  IN  Return("cosine",
        [vector |-> V_cosineSimilarity([i \in 1..Len(a) |-> a[i] * (VS \div 2)],
                                       [i \in 1..Len(b) |-> b[i] * (VS \div 2)]),
         faiss |-> F_cosineSimilarity(Arr([i \in 1..Len(a) |-> a[i] * (FS \div 2)]),
                                      Arr([i \in 1..Len(b) |-> b[i] * (FS \div 2)]))])

\* preference sets: each field left out or given
PrefsInputs ==
  {Prefs(l, s, h, d, n, b) :
     l \in {Absent, Some(<<"n","e","w"," ","y","o","r","k">>), Some(<<"B","o","s","t","o","n">>)},
     s \in {Absent, Some(<<"b","a","s","k","e","t","b","a","l","l">>)},
     h \in {Absent, Some(<<"V","I","P">>)},
     d \in {Absent, Some(75), Some(104)},
     n \in {Absent, Some(4), Some(12)},
     b \in {Absent, Some([min |-> 0, max |-> 500]),
            Some([min |-> 200, max |-> 500]), Some([min |-> 500, max |-> 1000])}}

\* calculateScore and getReasons on a package of the pool and a preference set
Score ==
  Return("score",
         [score |-> calculateScore(Pool[probe.arg.pkg], probe.arg.preferences),
          reasons |-> getReasons(Pool[probe.arg.pkg], probe.arg.preferences)])

\* findRecommendations over two packages that differ in price only
Budget ==
  LET pkg == Pool[probe.arg.pkg]
      catalog == <<[pkg EXCEPT !.price = probe.arg.prices[1]],
                   [pkg EXCEPT !.price = probe.arg.prices[2]]>>
  IN  Return("budget",
        [scores |-> <<calculateScore(catalog[1], probe.arg.preferences),
                      calculateScore(catalog[2], probe.arg.preferences)>>,
         result |-> findRecommendations(catalog, probe.arg.preferences)])

\* similarities, in thousandths, on both sides of the bands of generateReasons
Similarities == {0, 300, 600, 601, 800, 801, 1000}

\* generateReasons of both engines on a query, a package of the pool and a
\* similarity
Reasons ==
  LET pkg == Pool[probe.arg.pkg]
      q == probe.arg.q
      thousandths == probe.arg.similarity
  IN  Return("reasons",
        [vector |-> V_generateReasons(Queries[q], pkg,
                                      [num |-> thousandths, den |-> 1000 * 1000]),
         faiss |-> F_generateReasons(q, pkg, thousandths * ((FS * FS) \div 1000))])

UnitInit ==
  /\ NoEngine
  /\ chat = NoChat
  /\ tester = NoTester
  /\ \/ probe \in {Probe("location", L) : L \in Locations}
     \/ probe \in {Probe("embedding", [pkg |-> p, q |-> q, day |-> d, seed |-> r]) :
                     p \in 1..Len(Pool), q \in 1..Len(Queries),
                     d \in Now0..(Now0 + MaxTick), r \in {0, 37}}
     \/ probe \in {Probe("cosine", [a |-> a, b |-> b]) : a, b \in Vectors}
     \/ probe \in {Probe("score", [pkg |-> p, preferences |-> prefs]) :
                     p \in 1..Len(Pool), prefs \in PrefsInputs}
     \/ probe \in {Probe("budget", [pkg |-> p, preferences |-> prefs, prices |-> <<a, c>>]) :
                     p \in 1..Len(Pool),
                     prefs \in {x \in PrefsInputs : /\ x.budget.set
                                                    /\ ~x.peopleCount.set
                                                    /\ ~x.hospitalityType.set},
                     a, c \in {100, 300, 900}}
     \/ probe \in {Probe("reasons", [pkg |-> p, q |-> q, similarity |-> x]) :
                     p \in 1..Len(Pool), q \in 1..Len(Queries), x \in Similarities}

UnitNext ==
  \/ LocationBlocks
  \/ Embeddings
  \/ Cosine
  \/ Score
  \/ Budget
  \/ Reasons

UnitSpec == UnitInit /\ [][UnitNext]_vars

(***************************************************************************)
(* ChatInterface and NovaMicroService.  novaMicroService.ts holds the      *)
(* class more than once: the first text extracts the preferences with      *)
(* processQueryLocally, the last one with extractBasicPreferences after a  *)
(* vector search.  chat.service says which of them is behind the chat.     *)
(***************************************************************************)
ChatQueries == <<
  <<"I"," ","w","a","n","t"," ","b","a","s","k","e","t","b","a","l","l"," ","t","i","c","k","e","t","s">>,
  <<"F","i","n","d"," ","y","a","n","k","e","e","s"," ","t","i","c","k","e","t","s">>,
  <<"S","h","o","w"," ","m","e"," ","V","I","P"," ","t","i","c","k","e","t","s"," ","i","n"," ","B","o","s","t","o","n"," ","f","o","r"," ","4"," ","p","e","o","p","l","e">>,
  <<"b","a","s","e","b","a","l","l"," ","t","i","c","k","e","t","s"," ","i","n"," ","N","e","w"," ","Y","o","r","k">>,
  <<"c","l","u","b"," ","s","e","a","t","s"," ","$","1","0","0"," ","-"," ","$","3","0","0">>,
  <<"2"," ","t","i","c","k","e","t","s"," ","u","n","d","e","r"," ","$","2","0","0">>,
  <<"h","e","l","l","o">>,
  <<"F","i","n","d"," ","t","i","c","k","e","t","s"," ","i","n"," ","C","h","i","c","a","g","o">>,
  <<" "," ">>
>>

Least(S) == CHOOSE x \in S : \A y \in S : x <= y
Greatest(S) == CHOOSE x \in S : \A y \in S : x >= y
\* the element of a set of one
The(S) == CHOOSE x \in S : TRUE

\* String.prototype.trim, of a text whose white space is the space character
trim(s) ==
  IF \A i \in 1..Len(s) : s[i] = " " THEN <<>>
  ELSE SubSeq(s, Least({i \in 1..Len(s) : s[i] # " "}),
                 Greatest({i \in 1..Len(s) : s[i] # " "}))

\* The loop over locationPatterns: match[1].trim() of the first pattern that
\* matches the query.  A match is the leftmost one; in the first pattern the
\* white space after the keyword is greedy and the group lazy, in the second
\* the group is greedy.  s is the query in lower case; offsets count from 0
\* and indices from 1.
matchLocation(query) ==
  LET n == Len(query)
      InClass(s, i) == s[i] = " " \/ \E j \in 1..26 : LowerCase[j] = s[i]
      Stops(s, i) == i > n \/ s[i] \in {" ", ",", ".", "!", "?"}
      \* the group of the first pattern from g to e, e the least possible
      Lazy(s, g, e) ==
        /\ \A j \in g..e : InClass(s, j)
        /\ Stops(s, e + 1)
        /\ \A d \in (g + 1)..e : ~Stops(s, d)
      \* a keyword at offset i, white space, and the group from g
      After(s, i, g) ==
        /\ \E w \in {<<"i","n">>, <<"a","t">>, <<"n","e","a","r">>, <<"l","o","c","a","t","i","o","n">>} :
             /\ MatchAt(s, w, i)
             /\ g >= i + Len(w) + 2
             /\ \A j \in (i + Len(w) + 1)..(g - 1) : s[j] = " "
        /\ \E e \in g..n : Lazy(s, g, e)
      first(s) ==
        UNION { UNION { {SubSeq(query, g, e) : e \in {e \in g..n : Lazy(s, g, e)}} :
                        g \in {g \in 1..n : /\ After(s, i, g)
                                             /\ \A h \in (g + 1)..n : ~After(s, i, h)} } :
                i \in {i \in 0..n : /\ \E g \in 1..n : After(s, i, g)
                                     /\ \A j \in 0..(i - 1) :
                                          \A h \in 1..n : ~After(s, j, h)} }
      \* the group of the second pattern from i to e, white space and a noun
      Before(s, i, e) ==
        /\ \A j \in i..e : InClass(s, j)
        /\ e < n /\ s[e + 1] = " "
        /\ \E w \in {<<"a","r","e","a">>, <<"c","i","t","y">>, <<"s","t","a","d","i","u","m">>, <<"v","e","n","u","e">>} :
             MatchAt(s, w, SkipSpaces(s, e + 1) - 1)
      second(s) ==
        UNION { {SubSeq(query, i, e) :
                   e \in {e \in i..n : /\ Before(s, i, e)
                                        /\ \A h \in (e + 1)..n : ~Before(s, i, h)}} :
                i \in {i \in 1..n : /\ \E e \in i..n : Before(s, i, e)
                                     /\ \A j \in 1..(i - 1) :
                                          \A h \in j..n : ~Before(s, j, h)} }
      City(s, i) == \E c \in 1..8 : MatchAt(s, V_cities[c], i)
      third(s) ==
        UNION { {SubSeq(query, i + 1, i + Len(V_cities[c])) :
                   c \in {c \in 1..8 : MatchAt(s, V_cities[c], i)}} :
                i \in {i \in 0..n : City(s, i) /\ \A j \in 0..(i - 1) : ~City(s, j)} }
      Trimmed(matches) == The({Some(trim(m)) : m \in matches})
  IN  The({IF first(s) # {} THEN Trimmed(first(s))
           ELSE IF second(s) # {} THEN Trimmed(second(s))
           ELSE IF third(s) # {} THEN Trimmed(third(s))
           ELSE Absent : s \in {toLowerCase(query)}})

\* The loop over peoplePatterns: parseInt(match[1]) of the first pattern that
\* matches
matchPeople(query) ==
  LET n == Len(query)
      Number(s, i) == parseInt(SubSeq(s, i, SkipDigits(s, i) - 1))
      \* a number from i, white space and one of the words
      Before(s, words, i) ==
        /\ IsDigit(s[i])
        /\ SkipDigits(s, i) <= n /\ s[SkipDigits(s, i)] = " "
        /\ \E w \in words : MatchAt(s, w, SkipSpaces(s, SkipDigits(s, i)) - 1)
      Counts(s, words) ==
        {Number(s, i) : i \in {i \in 1..n : /\ Before(s, words, i)
                                             /\ \A j \in 1..(i - 1) : ~Before(s, words, j)}}
      \* a keyword at offset i, white space and a number from d
      After(s, i, d) ==
        /\ d <= n /\ IsDigit(s[d])
        /\ \E w \in {<<"f","o","r">>, <<"g","r","o","u","p"," ","o","f">>, <<"p","a","r","t","y"," ","o","f">>} :
             /\ MatchAt(s, w, i)
             /\ d >= i + Len(w) + 2
             /\ \A j \in (i + Len(w) + 1)..(d - 1) : s[j] = " "
      second(s) ==
        UNION { {Number(s, d) : d \in {d \in 1..n : After(s, i, d)}} :
                i \in {i \in 0..n : /\ \E d \in 1..n : After(s, i, d)
                                     /\ \A j \in 0..(i - 1) :
                                          \A h \in 1..n : ~After(s, j, h)} }
      first(s) == Counts(s, {<<"p","e","o","p","l","e">>, <<"t","i","c","k","e","t","s">>, <<"g","r","o","u","p">>, <<"p","e","r","s","o","n","s">>, <<"f","r","i","e","n","d","s">>})
      third(s) == Counts(s, {<<"o","f"," ","u","s">>})
  IN  The({IF first(s) # {} THEN Some(The(first(s)))
           ELSE IF second(s) # {} THEN Some(The(second(s)))
           ELSE IF third(s) # {} THEN Some(The(third(s)))
           ELSE Absent : s \in {toLowerCase(query)}})

\* The loop over budgetPatterns.  The first pattern matches at the first
\* number of the query, from d; the other two need a number as well, so they
\* are never reached with a query the first one does not match.
matchBudget(query) ==
  LET n == Len(query)
      Number(i) == parseInt(SubSeq(query, i, SkipDigits(query, i) - 1))
      \* the second number, from v: after white space, a dash, white space and
      \* a dollar sign, each of them optional but the dash
      Upper(d, v) ==
        /\ v <= n /\ IsDigit(query[v])
        /\ \E dash \in SkipDigits(query, d)..n :
             /\ dash = SkipSpaces(query, SkipDigits(query, d))
             /\ query[dash] = "-"
             /\ \/ v = SkipSpaces(query, dash + 1)
                \/ v = SkipSpaces(query, dash + 1) + 1 /\ query[v - 1] = "$"
      Ceiling(d, under) ==
        IF \E v \in 1..n : Upper(d, v)
        THEN The({Number(v) : v \in {v \in 1..n : Upper(d, v)}})
        ELSE IF under THEN 1000
        ELSE Number(d) * 2
  IN  IF \A i \in 1..n : ~IsDigit(query[i]) THEN Absent
      ELSE The({Some([min |-> 0, max |-> Ceiling(d, under)]) :
                  d \in {Least({i \in 1..n : IsDigit(query[i])})},
                  under \in {\E t \in {<<"u","n","d","e","r">>, <<"b","e","l","o","w">>} :
                               includes(toLowerCase(query), t)}})

\* Object.keys(preferences).length > 0 ? preferences : undefined
NonEmpty(preferences) ==
  IF \E f \in DOMAIN preferences : preferences[f].set
  THEN Some(preferences) ELSE Absent

\* What processQueryLocally reads off the query alone: the outcome of each of
\* its extraction blocks
queryFindings(query) ==
  LET lowerQuery == toLowerCase(query)
      Has(t) == includes(lowerQuery, t)
      sports == <<<<"b","a","s","k","e","t","b","a","l","l">>, <<"f","o","o","t","b","a","l","l">>, <<"b","a","s","e","b","a","l","l">>, <<"h","o","c","k","e","y">>, <<"s","o","c","c","e","r">>>>
      named == {i \in 1..5 : Has(sports[i])}
      teams == <<<<"k","n","i","c","k","s">>, <<"l","a","k","e","r","s">>, <<"c","e","l","t","i","c","s">>, <<"b","u","l","l","s">>, <<"c","o","w","b","o","y","s">>,
                 <<"p","a","t","r","i","o","t","s">>, <<"y","a","n","k","e","e","s">>, <<"r","e","d"," ","s","o","x">>>>
      played == {i \in 1..8 : Has(teams[i])}
  IN  [location |->
         IF \/ Has(<<"l","o","c","a","t","i","o","n">>) \/ Has(<<"w","h","e","r","e">>) \/ Has(<<"i","n"," ">>)
            \/ Has(<<"a","t"," ">>) \/ Has(<<"n","e","a","r">>)
         THEN matchLocation(query) ELSE Absent,
       peopleCount |->
         IF \/ Has(<<"p","e","o","p","l","e">>) \/ Has(<<"g","r","o","u","p">>) \/ Has(<<"t","i","c","k","e","t","s">>)
            \/ Has(<<"p","e","r","s","o","n">>) \/ Has(<<"u","s">>) \/ Has(<<"f","r","i","e","n","d","s">>)
         THEN matchPeople(query) ELSE Absent,
       sport |-> IF named # {} THEN Some(sports[Least(named)]) ELSE Absent,
       team |->
         IF played = {} THEN Absent
         ELSE IF Least(played) <= 4 THEN Some(<<"b","a","s","k","e","t","b","a","l","l">>)
         ELSE IF Least(played) <= 6 THEN Some(<<"f","o","o","t","b","a","l","l">>)
         ELSE Some(<<"b","a","s","e","b","a","l","l">>),
       hospitalityType |->
         IF Has(<<"v","i","p">>) \/ Has(<<"p","r","e","m","i","u","m">>) \/ Has(<<"l","u","x","u","r","y">>) THEN Some(<<"V","I","P">>)
         ELSE IF Has(<<"c","l","u","b">>) \/ Has(<<"l","o","u","n","g","e">>) THEN Some(<<"C","l","u","b">>)
         ELSE IF Has(<<"b","a","s","i","c">>) \/ Has(<<"s","t","a","n","d","a","r","d">>) \/ Has(<<"c","h","e","a","p">>)
         THEN Some(<<"B","a","s","i","c">>)
         ELSE Absent,
       budget |->
         IF \/ Has(<<"b","u","d","g","e","t">>) \/ Has(<<"p","r","i","c","e">>) \/ Has(<<"c","o","s","t">>) \/ Has(<<"u","n","d","e","r">>)
            \/ Has(<<"b","e","l","o","w">>) \/ Has(<<"c","h","e","a","p">>) \/ Has(<<"e","x","p","e","n","s","i","v","e">>) \/ Has(<<"$">>)
         THEN matchBudget(query) ELSE Absent]

QueryFindings ==
  AsSeq([q \in 1..Len(ChatQueries) |-> queryFindings(ChatQueries[q])])

\* processQueryLocally up to the response, of query q: `preferences` is the
\* object passed in, written in place, and updatedPreferences is that object.
\* A team is looked for only if preferences.sport is falsy after the loop
\* over the sports.
processQueryLocally(q, currentPreferences) ==
  LET Written(found) ==
        [f \in DOMAIN currentPreferences |->
           IF f = "sport"
           THEN IF found.sport.set THEN found.sport
                ELSE IF ~TruthyStr(currentPreferences.sport) /\ found.team.set
                THEN found.team
                ELSE currentPreferences.sport
           ELSE IF f \in {"location", "peopleCount", "hospitalityType", "budget"}
                   /\ found[f].set
           THEN found[f]
           ELSE currentPreferences[f]]
  IN  The({[preferences |-> preferences,
            updatedPreferences |-> NonEmpty(preferences)] :
             preferences \in {Written(found) : found \in {QueryFindings[q]}}})

\* extractBasicPreferences: a new object with what the query names
extractBasicPreferences(query) ==
  LET lowerQuery == toLowerCase(query)
      Has(t) == includes(lowerQuery, t)
      Capital(city) ==
        AsSeq([i \in 1..Len(city) |->
                 IF (i = 1 \/ city[i - 1] = " ") /\ \E j \in 1..26 : LowerCase[j] = city[i]
                 THEN UpperCase[CHOOSE j \in 1..26 : LowerCase[j] = city[i]]
                 ELSE city[i]])
      cities == {i \in 1..8 : Has(V_cities[i])}
      sports == <<<<"b","a","s","k","e","t","b","a","l","l">>, <<"f","o","o","t","b","a","l","l">>, <<"b","a","s","e","b","a","l","l">>, <<"h","o","c","k","e","y">>>>
      named == {i \in 1..4 : Has(sports[i])}
  IN  Prefs(IF cities # {} THEN Some(Capital(V_cities[Least(cities)])) ELSE Absent,
            IF named # {} THEN Some(sports[Least(named)]) ELSE Absent,
            IF Has(<<"v","i","p">>) \/ Has(<<"p","r","e","m","i","u","m">>) THEN Some(<<"V","I","P">>)
            ELSE IF Has(<<"c","l","u","b">>) THEN Some(<<"C","l","u","b">>) ELSE Absent,
            Absent,
            matchGroup(lowerQuery, {<<"p","e","o","p","l","e">>, <<"p","e","r","s","o","n">>, <<"g","r","o","u","p">>, <<"f","r","i","e","n","d","s">>}),
            Absent)

\* a slice that is empty
NoPackages(pkgs, n) == <<>>

\* packages.slice(0, n), by catalog position
Popular(pkgs, n) == AsSeq([i \in 1..Min(n, Len(pkgs)) |-> i])

\* processQueryWithVectorSearch: the engine is constructed and asked at once,
\* so its cache holds the first package alone when the query is scored.  The
\* preferences passed in are not read.  throws says that
\* findRecommendationsByQuery threw.  Packages are named by catalog position,
\* the response by the statement that wrote it.
processQueryWithVectorSearch(query, pkgs, throws) ==
  LET lowerQuery == toLowerCase(query)
      Has(t) == includes(lowerQuery, t)
      isLookingForTickets ==
        \/ Has(<<"r","e","c","o","m","m","e","n","d">>) \/ Has(<<"s","u","g","g","e","s","t">>) \/ Has(<<"f","i","n","d">>) \/ Has(<<"s","h","o","w">>)
        \/ Has(<<"w","a","n","t">>) \/ Has(<<"l","o","o","k","i","n","g">>) \/ Has(<<"t","i","c","k","e","t","s">>) \/ Has(<<"e","v","e","n","t","s">>)
        \/ Has(<<"g","a","m","e","s">>) \/ Has(<<"n","e","e","d">>)
      cache == IF pkgs = <<>> THEN EmptyMap
               ELSE [id \in {pkgs[1].id} |-> V_createPackageEmbedding(pkgs[1])]
      answered == Has(<<"h","e","l","l","o">>) \/ Has(<<"h","i">>) \/ Has(<<"h","e","l","p">>) \/ Has(<<"t","h","a","n","k">>)
      Found(recommendations) ==
        IF Len(recommendations) > 0
        THEN [response |-> "contextual",
              updatedPreferences |-> NonEmpty(extractBasicPreferences(query)),
              suggestedPackages |->
                Some(AsSeq([i \in 1..Len(recommendations) |-> recommendations[i].pkg]))]
        ELSE [response |-> IF throws THEN "popular options"
                           ELSE "popular options to get you started",
              updatedPreferences |-> Absent,
              suggestedPackages |-> Some(Popular(pkgs, 5))]
  IN  IF answered \/ ~isLookingForTickets
      THEN [response |-> IF answered THEN "greeting" ELSE "try asking",
            updatedPreferences |-> Absent,
            suggestedPackages |-> Absent]
      ELSE The({Found(recommendations) :
                  recommendations \in {IF throws THEN <<>>
                                       ELSE V_rank(pkgs, cache, query)}})

\* by query, by the length of the catalog (a prefix of the pool) and by
\* whether the search threw
VectorResults ==
  AsSeq([q \in 1..Len(ChatQueries) |->
           AsSeq([n \in 1..(Len(Pool) + 1) |->
                    [throws \in BOOLEAN |->
                       processQueryWithVectorSearch(ChatQueries[q],
                                                    SubSeq(Pool, 1, n - 1), throws)]])])

\* the first text's test for a request of recommendations
asksForPackages(query) ==
  \E t \in {<<"r","e","c","o","m","m","e","n","d">>, <<"s","u","g","g","e","s","t">>, <<"f","i","n","d">>, <<"s","h","o","w">>, <<"w","a","n","t">>, <<"l","o","o","k","i","n","g">>,
            <<"t","i","c","k","e","t","s">>, <<"e","v","e","n","t","s">>, <<"g","a","m","e","s">>} : includes(toLowerCase(query), t)

AsksForPackages == AsSeq([q \in 1..Len(ChatQueries) |-> asksForPackages(ChatQueries[q])])

\* what processUserQuery resolves with: the preferences object it was passed
\* (written by the first text), updatedPreferences and suggestedPackages
processUserQuery(service, q, pkgs, currentPreferences, throws) ==
  IF service = "local"
  THEN The({[response |-> "generated",
             preferences |-> r.preferences,
             updatedPreferences |-> r.updatedPreferences,
             suggestedPackages |->
               IF ~AsksForPackages[q] THEN Absent
               ELSE IF ~r.updatedPreferences.set
               THEN Some(Popular(pkgs, 5))
               ELSE The({IF Len(recommendations) > 0
                         THEN Some(AsSeq([i \in 1..Len(recommendations) |->
                                            recommendations[i].pkg]))
                         ELSE Some(Popular(pkgs, 3)) :
                           recommendations \in
                             {findRecommendations(pkgs, r.preferences)}})] :
              r \in {processQueryLocally(q, currentPreferences)}})
  ELSE The({[response |-> r.response,
             preferences |-> currentPreferences,
             updatedPreferences |-> r.updatedPreferences,
             suggestedPackages |-> r.suggestedPackages] :
              r \in {VectorResults[q][Len(pkgs) + 1][throws]}})

\* setUserPreferences(prev => ({ ...prev, ...result.updatedPreferences }))
Spread(prev, updatedPreferences) ==
  [f \in DOMAIN prev |->
     IF updatedPreferences[f].set THEN updatedPreferences[f] ELSE prev[f]]

\* a ChatMessage: its type, what its content is, and its suggestions
Message(type, content, suggestions) ==
  [type |-> type, content |-> content, suggestions |-> suggestions]

\* the text in the input: 0 is the empty text
InputText(i) == IF i = 0 THEN <<>> ELSE ChatQueries[i]

\* onChange of the input, which is disabled while isLoading
setInputValue(q) ==
  /\ chat.service \in {"local", "vector"}
  /\ ~chat.isLoading
  /\ chat.inputValue # q
  /\ chat' = [chat EXCEPT !.inputValue = q]
  /\ UNCHANGED <<engineVars, probe, tester>>

\* a handleSendMessage whose guard is !inputValue || isLoading
SendsBlank ==
  /\ chat.service \in {"local", "vector"}
  /\ IF chat.inputValue = 0 \/ chat.isLoading
     THEN chat' = chat
     ELSE /\ Cardinality({m \in 1..Len(chat.messages) :
                             chat.messages[m].type = "user"}) < MaxTurns
          /\ chat' = [chat EXCEPT
                        !.messages = Append(@, Message("user", "inputValue", Absent)),
                        !.pending = Append(@, chat.inputValue),
                        !.inputValue = 0,
                        !.isLoading = TRUE]
  /\ UNCHANGED <<engineVars, probe, tester>>

\* handleSendMessage up to its await: the guard, the user's message, the
\* cleared input, isLoading, and the call of processUserQuery
handleSendMessage ==
  /\ chat.service \in {"local", "vector"}
  /\ IF trim(InputText(chat.inputValue)) = <<>> \/ chat.isLoading
     THEN chat' = chat
     ELSE /\ Cardinality({m \in 1..Len(chat.messages) :
                             chat.messages[m].type = "user"}) < MaxTurns
          /\ chat' = [chat EXCEPT
                        !.messages = Append(@, Message("user", "inputValue", Absent)),
                        !.pending = Append(@, chat.inputValue),
                        !.inputValue = 0,
                        !.isLoading = TRUE]
  /\ UNCHANGED <<engineVars, probe, tester>>

\* handleSendMessage after processUserQuery resolved: the AI message, the
\* preferences spread over the state object (which the first text has
\* written when it was called; nothing reads it before), and finally
handleSendMessageResolved(throws) ==
  /\ chat.pending # <<>>
  /\ chat.service = "vector" \/ ~throws
  /\ \E result \in {processUserQuery(chat.service, Head(chat.pending), packages,
                                     chat.userPreferences, throws)} :
       /\ throws => result.response = "popular options"
       /\ chat' = [chat EXCEPT
                     !.messages =
                        Append(@, Message("ai", result.response,
                                          result.suggestedPackages)),
                     !.userPreferences =
                        IF result.updatedPreferences.set
                        THEN Spread(result.preferences, result.updatedPreferences.v)
                        ELSE result.preferences,
                     !.query = Head(chat.pending),
                     !.pending = Tail(@),
                     !.sent = @ + 1,
                     !.isLoading = FALSE]
  /\ UNCHANGED <<engineVars, probe, tester>>

\* a catch block that shows nothing
RejectedSilently ==
  /\ chat.pending # <<>>
  /\ IF chat.service = "local" THEN AsksForPackages[Head(chat.pending)]
     ELSE VectorResults[Head(chat.pending)][1][FALSE].response # "greeting"
  /\ chat' = [chat EXCEPT !.pending = Tail(@), !.isLoading = FALSE]
  /\ UNCHANGED <<engineVars, probe, tester>>

\* handleSendMessage after processUserQuery rejected, which it does when the
\* dynamic import of the engine's module fails: the apology, and finally
handleSendMessageRejected ==
  /\ chat.pending # <<>>
  /\ IF chat.service = "local" THEN AsksForPackages[Head(chat.pending)]
     ELSE VectorResults[Head(chat.pending)][1][FALSE].response # "greeting"
  /\ chat' = [chat EXCEPT
                !.messages = Append(@, Message("ai", "apology", Absent)),
                !.userPreferences =
                   IF chat.service = "local"
                   THEN processQueryLocally(Head(chat.pending), @).preferences
                   ELSE @,
                !.pending = Tail(@),
                !.isLoading = FALSE]
  /\ UNCHANGED <<engineVars, probe, tester>>

\* handleAddToCart of a package card shown under a message; the card's
\* button is disabled once the package is in the cart
handleAddToCart(pkg) ==
  /\ chat.service \in {"local", "vector"}
  /\ Len(chat.cart) < MaxCart
  /\ \E m \in 1..Len(chat.messages) :
       /\ chat.messages[m].suggestions.set
       /\ \E i \in 1..Len(chat.messages[m].suggestions.v) :
            chat.messages[m].suggestions.v[i] = pkg
  /\ \A i \in 1..Len(chat.cart) : chat.cart[i] # pkg
  /\ chat' = [chat EXCEPT
                !.cart = Append(@, pkg),
                !.messages = Append(@, Message("ai", "added to your cart", Absent))]
  /\ UNCHANGED <<engineVars, probe, tester>>

\* the state of ChatInterface's first render over a catalog
ChatInit ==
  /\ sut = "chat"
  /\ packages \in Catalogs
  /\ today = Now0
  /\ faissIndex = Null
  /\ packageEmbeddings = EmptyMap
  /\ isInitialized = FALSE
  /\ faissPc = "idle"
  /\ faissI = 0
  /\ vecEmbeddings = EmptyMap
  /\ vecI = 0
  /\ microtasks = <<>>
  /\ vecCall = 0
  /\ last = NoCall
  /\ probe = NoProbe
  /\ tester = NoTester
  /\ chat \in {[NoChat EXCEPT !.service = s,
                              !.messages = <<Message("ai", "assistant", Absent)>>] :
                 s \in {"local", "vector"}}

ChatNext ==
  \/ \E q \in 0..Len(ChatQueries) : setInputValue(q)
  \/ handleSendMessage
  \/ \E throws \in BOOLEAN : handleSendMessageResolved(throws)
  \/ handleSendMessageRejected
  \/ \E pkg \in 1..Len(packages) : handleAddToCart(pkg)

\* a promise settles: processUserQuery resolves or rejects
ChatSpec ==
  ChatInit /\ [][ChatNext]_vars
           /\ WF_vars(handleSendMessageRejected
                        \/ \E throws \in BOOLEAN : handleSendMessageResolved(throws))

(***************************************************************************)
(* SearchPerformanceTester: runBenchmarks and quickTest construct a        *)
(* FAISSSearchService, await waitForInitialization and then send their     *)
(* queries to it.  The index is initialized while the tester sleeps.       *)
(***************************************************************************)
maxWait == 5000
checkInterval == 100

\* the loop condition holds: getPerformanceStats() is read, and the tester
\* returns or goes to sleep
WaitPoll ==
  /\ tester.pc = "check"
  /\ tester.waited < maxWait
  /\ tester' = [tester EXCEPT !.pc = IF isInitialized THEN "ready" ELSE "sleep"]
  /\ UNCHANGED <<engineVars, probe, chat>>

\* the timer that never counts
SleepForgets ==
  /\ tester.pc = "sleep"
  /\ tester' = [tester EXCEPT !.pc = "check"]
  /\ UNCHANGED <<engineVars, probe, chat>>

\* the timer fires: waited += checkInterval
WaitSleep ==
  /\ tester.pc = "sleep"
  /\ tester' = [pc |-> "check", waited |-> tester.waited + checkInterval]
  /\ UNCHANGED <<engineVars, probe, chat>>

\* the loop condition fails: the timeout is logged and the tester returns
WaitTimeout ==
  /\ tester.pc = "check"
  /\ tester.waited >= maxWait
  /\ tester' = [tester EXCEPT !.pc = "timeout"]
  /\ UNCHANGED <<engineVars, probe, chat>>

\* new FAISSSearchService(this.packages), then waitForInitialization is called
WaitInit ==
  /\ sut = "faiss"
  /\ packages \in Catalogs
  /\ today = Now0
  /\ faissIndex = Null
  /\ packageEmbeddings = EmptyMap
  /\ isInitialized = FALSE
  /\ faissPc = "import"
  /\ faissI = 0
  /\ vecEmbeddings = EmptyMap
  /\ vecI = 0
  /\ microtasks = <<>>
  /\ vecCall = 0
  /\ last = NoCall
  /\ probe = NoProbe
  /\ chat = NoChat
  /\ tester = [pc |-> "check", waited |-> 0]

\* waitForInitialization has returned: benchmarkFAISS and quickTest ask for 5
WaitNext ==
  \/ WaitPoll
  \/ WaitSleep
  \/ WaitTimeout
  \/ FaissImportOk
  \/ FaissImportFail
  \/ FaissEmbedStep
  \/ FaissBuildEmpty
  \/ FaissBuildAdd
  \/ FaissBuildAddFails
  \/ FaissReady
  \/ \E q \in 1..Len(Queries) :
       tester.pc \in {"ready", "timeout"} /\ FaissFallback(q, 5)
  \/ \E q \in 1..Len(Queries), t \in BOOLEAN :
       tester.pc \in {"ready", "timeout"} /\ FaissIndexSearch(q, 5, t)
  \/ \E q \in 1..Len(Queries) :
       tester.pc \in {"ready", "timeout"} /\ FaissSearchFails(q, 5)

\* the event loop runs the tester whenever it can take a step; nothing makes
\* the import of faiss-node settle
WaitSpec ==
  /\ WaitInit /\ [][WaitNext]_vars
  /\ WF_vars(WaitPoll \/ WaitSleep \/ WaitTimeout)

(***************************************************************************)
(* The linear cosine scan of the specification: the query vector against   *)
(* the vector of every package, both computed on the given day, kept above *)
(* 30, sorted by descending score, cut to k.  It is fallbackSearch with    *)
(* the query embedding awaited and every package cached.                   *)
(***************************************************************************)
linearScan(pkgs, q, k, day) ==
  LET queryEmbedding == Arr(createQueryEmbedding(q, day))
      scores == AsSeq([n \in 1..Len(pkgs) |->
                   LET pkg == pkgs[n]
                       similarity ==
                         F_cosineSimilarity(queryEmbedding,
                                            Arr(createPackageEmbedding(pkg, day)))
                   IN  [pkg |-> n,
                        score |-> F_roundScore(Max(0, similarity)),
                        reasons |-> F_generateReasons(q, pkg, similarity)]])
  IN  Slice(SortDesc(FilterAbove(scores, 30)), k)

\* the catalog positions and scores of a result, in order
Ranking(result) ==
  AsSeq([i \in 1..Len(result) |-> <<result[i].pkg, result[i].score>>])

(***************************************************************************)
(* The claims                                                              *)
(***************************************************************************)

\* C1: every rank request (attribute matcher and vector engine with k = 5,
\* the index path and fallbackSearch with the k requested) returns at most
\* k items.
C1_KBound == Len(last.result) <= last.k

\* C1 at work: the attribute matcher gave every package of a catalog of more
\* than 5 a positive score and returned 5 of them.
C1_Truncated ==
  /\ last.engine = "attr"
  /\ Len(last.result) = last.k
  /\ Cardinality({i \in 1..Len(packages) :
                    calculateScore(packages[i], PrefsSet[last.input]) > 0}) > last.k

\* C2: on the vector paths (index, fallbackSearch, vector engine) no returned
\* item has a score of 30 or less.
C2_Threshold ==
  last.path \in {"index", "fallback", "catch", "cosine"} =>
    \A i \in 1..Len(last.result) : last.result[i].score > 30

\* C2 at work: the vector engine scored a package at 30 or less (a later
\* package of the catalog is in the result, so it was cached) and left it out.
C2_Filtered ==
  /\ last.path = "cosine"
  /\ \E i, j \in 1..Len(packages) :
       /\ i < j
       /\ V_roundScore(V_cosineSimilarity(
             V_createQueryEmbedding(Queries[last.input]),
             V_createPackageEmbedding(packages[i]))) <= 30
       /\ \E r \in 1..Len(last.result) : last.result[r].pkg = j
       /\ \A r \in 1..Len(last.result) : last.result[r].pkg # i

\* C3: every item FAISSSearchService.findRecommendationsByQuery returns, from
\* the index or from fallbackSearch, has a score in 0..100.
C3_VectorScoreBound ==
  last.engine = "faiss" =>
    \A i \in 1..Len(last.result) : last.result[i].score \in 0..100

\* C4: every item RecommendationEngine.findRecommendations returns has a
\* score in 0..100.
C4_AttributeScoreBound ==
  last.engine = "attr" =>
    \A i \in 1..Len(last.result) : last.result[i].score \in 0..100

\* C5: a request served while the index is unavailable or not yet initialized
\* returns the linear cosine scan of the catalog (as of a day up to today).
C5_TransparentFallback ==
  last.path = "fallback" =>
    \E day \in Now0..today :
      Ranking(last.result) = Ranking(linearScan(packages, last.input, last.k, day))

\* C6: the items the index path returns are the items fallbackSearch returns
\* for the same catalog, query and k.
C6_FallbackEquivalence ==
  last.path = "index" =>
    {last.result[i].pkg : i \in 1..Len(last.result)}
      = LET scan == fallbackSearch(packages, packageEmbeddings,
                                   last.input, last.k, today)
        IN  {scan[i].pkg : i \in 1..Len(scan)}

\* C7: when the index search raises, the request does not reject and returns
\* the linear cosine scan for the same query and k.
C7_SearchFailureNotSurfaced ==
  last.path = "catch" =>
    /\ last.outcome = "resolved"
    /\ \E day \in Now0..today :
         Ranking(last.result) = Ranking(linearScan(packages, last.input, last.k, day))

\* C8: two requests with the same input on the same engine return the same
\* output, whenever they are issued after the engine was constructed.
C8_Determinism ==
  [][(/\ last # NoCall
      /\ last'.engine = last.engine
      /\ last'.input = last.input
      /\ last'.k = last.k) => last'.result = last.result]_vars

\* C9: when a rank request scores the catalog, the vector cache holds a vector
\* for every package of the catalog.
C9_CacheComplete ==
  [][LET ids == {packages[i].id : i \in 1..Len(packages)}
     IN  /\ (vecCall # 0 /\ vecCall' = 0) => DOMAIN vecEmbeddings = ids
         /\ (last' # last /\ last'.path \in {"fallback", "catch"}) =>
              DOMAIN packageEmbeddings = ids]_vars

\* C10: on the index path, fallbackSearch and the attribute matcher the scores
\* returned never increase, and equal scores come in catalog order.
C10_Ordering ==
  last.path \in {"index", "fallback", "catch", "attr"} =>
    \A i, j \in 1..Len(last.result) :
      i < j => \/ last.result[i].score > last.result[j].score
               \/ /\ last.result[i].score = last.result[j].score
                  /\ last.result[i].pkg < last.result[j].pkg

\* C11: a location text encodes to the same location block on the catalog
\* path (encodeLocationWithProximity) and on the query path
\* (extractLocationFromQuery of the lower-cased text).
C11_EncoderAlignment ==
  (probe.fn = "location" /\ probe.done) => probe.out[1] = probe.out[2]

\* C12: createPackageEmbedding, createQueryEmbedding and
\* createFallbackEmbedding return exactly embeddingDimension entries, and a
\* block of the catalog side (package or fallback embedding) starts where the
\* block of the same name starts on the query side.
C12_Dimension ==
  (probe.fn = "embedding" /\ probe.done) =>
    /\ Len(probe.out.package) = embeddingDimension
    /\ Len(probe.out.query) = embeddingDimension
    /\ Len(probe.out.fallback) = embeddingDimension
    /\ \A side \in {"package", "fallback"} :
         \A i \in 1..Len(probe.out.layout[side]),
            j \in 1..Len(probe.out.layout.query) :
           probe.out.layout[side][i].name = probe.out.layout.query[j].name =>
             probe.out.layout[side][i].offset = probe.out.layout.query[j].offset

\* C13: cosineSimilarity returns 0 when the vectors differ in length or one
\* has no magnitude, and dot(a, b) / (|a| |b|) otherwise: exactly in
\* VectorRecommendationEngine's pair, to a hundredth in the fixed point of
\* FAISSSearchService's.
C13_CosineFailsSoft ==
  (probe.fn = "cosine" /\ probe.done) =>
    LET a == probe.arg.a
        b == probe.arg.b
        na == DotTo(a, a, Len(a))
        nb == DotTo(b, b, Len(b))
        \* the fixed-point result in units of 1/200
        h == probe.out.faiss \div ((FS * FS) \div 200)
    IN  IF Len(a) # Len(b) \/ na = 0 \/ nb = 0
        THEN /\ probe.out.vector = [num |-> 0, den |-> 1]
             /\ probe.out.faiss = 0
        ELSE LET dot == DotTo(a, b, Len(a))
             IN  /\ probe.out.vector.den # 0
                 /\ probe.out.vector.num * probe.out.vector.num * na * nb
                      = dot * dot * probe.out.vector.den
                 /\ Max(h - 1, 0) * Max(h - 1, 0) * na * nb <= 40000 * dot * dot
                 /\ 40000 * dot * dot <= (h + 1) * (h + 1) * na * nb

\* C13 at work: vectors of the same length, one of them all zeros
C13_ZeroMagnitude ==
  /\ probe.fn = "cosine" /\ probe.done
  /\ Len(probe.arg.a) = Len(probe.arg.b)
  /\ DotTo(probe.arg.a, probe.arg.a, Len(probe.arg.a)) = 0
  /\ DotTo(probe.arg.b, probe.arg.b, Len(probe.arg.b)) > 0
  /\ probe.out.vector = [num |-> 0, den |-> 1]
  /\ probe.out.faiss = 0

\* C14: calculateScore is the rounded sum of 30 for the location, 25 for the
\* sport and 20 for the hospitality type the package's text contains, of
\* 15 * (1 - d / 30) for a date d <= 30 days away, of 10 for a party the
\* tickets suffice for, and of 20 for a price within the budget or 10 for a
\* price under it; a field left out adds nothing.
C14_AttributeReference ==
  (probe.fn = "score" /\ probe.done) =>
    LET pkg == Pool[probe.arg.pkg]
        p == probe.arg.preferences
        contains(text, o) == o.set /\ includes(toLowerCase(text), toLowerCase(o.v))
        d == Abs(pkg.date - p.date.v)
        \* the sum, in halves
        sum == (IF contains(pkg.location, p.location) THEN 60 ELSE 0)
               + (IF contains(pkg.sportType, p.sport) THEN 50 ELSE 0)
               + (IF contains(pkg.hospitalityType, p.hospitalityType) THEN 40 ELSE 0)
               + (IF p.date.set /\ d <= 30 THEN 30 - d ELSE 0)
               + (IF p.peopleCount.set /\ pkg.availableTickets >= p.peopleCount.v
                  THEN 20 ELSE 0)
               + (IF ~p.budget.set THEN 0
                  ELSE IF p.budget.v.min <= pkg.price /\ pkg.price <= p.budget.v.max
                       THEN 40
                  ELSE IF pkg.price < p.budget.v.min THEN 20 ELSE 0)
    IN  probe.out.score = (sum + 1) \div 2

\* C15: of two packages that differ in price only, one priced above the
\* budget's max scores lower than one priced under its min, which scores
\* lower than one priced within the budget; and findRecommendations returns
\* the one within the budget, ahead of the one above it.
C15_BudgetRule ==
  (probe.fn = "budget" /\ probe.done) =>
    LET budget == probe.arg.preferences.budget.v
        \* 0 above max, 1 under min, 2 within
        class(i) == IF probe.arg.prices[i] < budget.min THEN 1
                    ELSE IF probe.arg.prices[i] <= budget.max THEN 2 ELSE 0
        result == probe.out.result
    IN  \A i, j \in 1..2 :
          /\ class(i) < class(j) => probe.out.scores[i] < probe.out.scores[j]
          /\ (class(i) = 0 /\ class(j) = 2) =>
                \E m \in 1..Len(result) :
                  /\ result[m].pkg = j
                  /\ \A n \in 1..Len(result) : result[n].pkg = i => m < n

\* C15 at work: the package above the budget comes first in the catalog and
\* second in the result, behind the one within the budget.
C15_InBudgetFirst ==
  /\ probe.fn = "budget" /\ probe.done
  /\ probe.arg.prices[1] > probe.arg.preferences.budget.v.max
  /\ probe.arg.prices[2] >= probe.arg.preferences.budget.v.min
  /\ probe.arg.prices[2] <= probe.arg.preferences.budget.v.max
  /\ Len(probe.out.result) = 2
  /\ probe.out.result[1].pkg = 2
  /\ probe.out.result[2].pkg = 1

\* C16: getReasons lists the reason of a term (location, sport, hospitality,
\* date, people, budget) exactly when calculateScore added that term.
C16_ReasonsMirrorTerms ==
  (probe.fn = "score" /\ probe.done) =>
    LET terms == ScoreTerms(Pool[probe.arg.pkg], probe.arg.preferences)
    IN  \A term \in DOMAIN terms :
          (\E i \in 1..Len(probe.out.reasons) : probe.out.reasons[i].rule = term)
            <=> terms[term] > 0

\* C17: findRecommendations returns no item whose score is 0, and returns
\* nothing when every package of the catalog scores 0.
C17_ZeroScoreExclusion ==
  last.engine = "attr" =>
    /\ \A i \in 1..Len(last.result) : last.result[i].score > 0
    /\ (\A n \in 1..Len(packages) :
          calculateScore(packages[n], PrefsSet[last.input]) = 0)
         => last.result = <<>>

\* C17 at work: only a sport is preferred, no package of a catalog that is
\* not empty is of that sport, and nothing is returned.
C17_NoMatch ==
  /\ last.engine = "attr"
  /\ Len(packages) > 0
  /\ PrefsSet[last.input].sport.set
  /\ ~PrefsSet[last.input].location.set /\ ~PrefsSet[last.input].hospitalityType.set
  /\ ~PrefsSet[last.input].date.set /\ ~PrefsSet[last.input].peopleCount.set
  /\ ~PrefsSet[last.input].budget.set
  /\ \A n \in 1..Len(packages) :
       ~includes(toLowerCase(packages[n].sportType),
                 toLowerCase(PrefsSet[last.input].sport.v))
  /\ last.result = <<>>


\* C18: across the queries of a chat the preferences only accumulate.  When
\* a query has been processed, every field the query yields on its own (in a
\* chat with no preferences yet) holds that value, every other field holds
\* what it held before, and no field that was set is unset.
C18_PreferenceAccumulation ==
  [][chat'.sent = chat.sent + 1 =>
       LET alone == IF chat.service = "local"
                    THEN processQueryLocally(chat'.query, PrefsSet[1]).updatedPreferences
                    ELSE VectorResults[chat'.query][Len(packages) + 1]
                           [chat'.messages[Len(chat'.messages)].content
                              = "popular options"].updatedPreferences
           extracted == IF alone.set THEN alone.v ELSE PrefsSet[1]
           Same(x, y) == x.set = y.set /\ (x.set => x.v = y.v)
       IN  \A f \in DOMAIN extracted :
             /\ chat.userPreferences[f].set => chat'.userPreferences[f].set
             /\ extracted[f].set => Same(chat'.userPreferences[f], extracted[f])
             /\ ~extracted[f].set =>
                  Same(chat'.userPreferences[f], chat.userPreferences[f])]_vars

\* C19: waitForInitialization terminates: it returns, after at most
\* maxWait/checkInterval = 50 reads of the readiness flag, whether or not the
\* index becomes ready.  A rank request made after it returned on the timeout
\* resolves, and is served by fallbackSearch while the index is not ready.
C19_BoundedWait ==
  /\ <>(tester.pc \in {"ready", "timeout"})
  /\ [](LET polls == tester.waited \div checkInterval
                       + IF tester.pc \in {"sleep", "ready"} THEN 1 ELSE 0
        IN  /\ polls <= maxWait \div checkInterval
            /\ maxWait \div checkInterval = 50
            /\ tester.pc = "timeout" /\ last.engine = "faiss" =>
                  /\ last.outcome = "resolved"
                  /\ last.path = "fallback" \/ isInitialized)

\* C19 at work: the index never became ready, the wait ran out after 50 reads
\* and the request made then was served by fallbackSearch
C19_TimedOut ==
  /\ tester.pc = "timeout"
  /\ tester.waited = 50 * checkInterval
  /\ ~isInitialized
  /\ last.engine = "faiss" /\ last.path = "fallback" /\ last.outcome = "resolved"

\* C20: over an empty catalog every rank request of every engine resolves
\* with the empty sequence.  The index of the FAISS service is never ready
\* then, because building it over no embeddings fails, so its requests are
\* served by fallbackSearch.
C20_EmptyCatalog ==
  packages = <<>> =>
    /\ ~isInitialized
    /\ last.engine # "none" => last.result = <<>> /\ last.outcome = "resolved"
    /\ last.engine = "faiss" => last.path = "fallback"

\* C20 at work: faiss-node was imported, buildIndex failed for lack of
\* embeddings, and a request made afterwards returned the empty sequence
C20_BuildFailed ==
  /\ packages = <<>>
  /\ faissPc = "failed" /\ faissIndex.exists
  /\ last.engine = "faiss" /\ last.result = <<>> /\ last.outcome = "resolved"

\* C21: when processQueryWithVectorSearch has reached the vector search for
\* a query that looks for tickets, and the search threw or returned no
\* recommendation, processUserQuery resolves (the chat shows an answer, not
\* the apology) and its suggestedPackages are the first 5 packages of the
\* catalog, all of them if there are fewer.
C21_PopularFallback ==
  [][(/\ chat.service = "vector"
      /\ chat.pending # <<>>
      /\ chat'.pending = <<>>
      /\ chat'.messages[Len(chat'.messages)].content # "apology"
      /\ LET found == VectorResults[Head(chat.pending)][Len(packages) + 1][FALSE].response
         IN  /\ found \notin {"greeting", "try asking"}
             /\ \/ chat'.messages[Len(chat'.messages)].content = "popular options"
                \/ found = "popular options to get you started")
       => /\ chat'.messages[Len(chat'.messages)].type = "ai"
          /\ chat'.messages[Len(chat'.messages)].suggestions
               = Some(SubSeq(<<1, 2, 3, 4, 5>>, 1, Min(5, Len(packages))))]_vars

\* C21 at work: over a catalog of six packages the search threw, and the
\* answer shown in the chat suggests packages one to five
C21_SearchThrew ==
  /\ chat.service = "vector"
  /\ Len(packages) = 6
  /\ ~chat.isLoading
  /\ Len(chat.messages) = 3
  /\ chat.messages[3].type = "ai"
  /\ chat.messages[3].content = "popular options"
  /\ chat.messages[3].suggestions = Some(<<1, 2, 3, 4, 5>>)

C23_ReasonsNeverEmpty ==
  probe.fn = "reasons" /\ probe.done =>
    LET pkg == Pool[probe.arg.pkg]
        lowerQuery == toLowerCase(Queries[probe.arg.q])
        Says(t) == includes(lowerQuery, t)
        named ==
          \/ Says(toLowerCase(pkg.location))
          \/ Says(toLowerCase(pkg.sportType))
          \/ (Says(<<"b","u","d","g","e","t">>) \/ Says(<<"c","h","e","a","p">>)) /\ pkg.price < 200
          \/ (Says(<<"p","r","e","m","i","u","m">>) \/ Says(<<"v","i","p">>))
               /\ pkg.hospitalityLevel \in {"Gold", "Platinum"}
          \/ Says(<<"v","i","p">>) /\ includes(pkg.hospitalityType, <<"V","I","P">>)
        Holds(reasons, band) ==
          /\ Len(reasons) >= 1
          /\ (\E i \in 1..Len(reasons) : reasons[i].rule = "generic")
               <=> ~named /\ probe.arg.similarity <= band
          /\ \A i \in 1..Len(reasons) :
               reasons[i].rule = "generic" =>
                 /\ Len(reasons) = 1
                 /\ 10 * reasons[i].n \in {probe.arg.similarity - 5 + d : d \in 1..10}
    IN  Holds(probe.out.vector, 800) /\ Holds(probe.out.faiss, 600)

\* C23 at work: a query about baseball in Boston, a football package in
\* Green Bay and a similarity of 0.6: each engine gives the one reason
\* "60% match"
C23_OnlyThePercentage ==
  /\ probe.fn = "reasons" /\ probe.done
  /\ probe.arg.similarity = 600
  /\ Pool[probe.arg.pkg].location = <<"G","r","e","e","n"," ","B","a","y">>
  /\ probe.out.vector = <<Reason("generic", 60)>>
  /\ probe.out.faiss = <<Reason("generic", 60)>>

\* C24: generatePackageEmbeddings recovers from a createPackageEmbedding that
\* throws.  Whatever packages it throws for, the error does not leave
\* generatePackageEmbeddings (initialization goes on to buildIndex), and
\* when the loop is over every package of the catalog has a vector cached.
C24_EncodingRecovered ==
  [][faissPc = "embed" =>
       /\ faissPc' \in {"embed", "build"}
       /\ faissPc' = "build" =>
            \A n \in 1..Len(packages) : packages[n].id \in DOMAIN packageEmbeddings']_vars

\* C25: the encoders are deterministic.  The vector returned for a package,
\* for a query, and by the fallback encoding of a package is the vector any
\* other call with the same argument returns: on another day, and with
\* other values drawn for the padding.
C25_EncoderDeterminism ==
  probe.fn = "embedding" /\ probe.done =>
    /\ \A day \in Now0..(Now0 + MaxTick) :
         /\ createPackageEmbedding(Pool[probe.arg.pkg], day) = probe.out.package
         /\ createQueryEmbedding(probe.arg.q, day) = probe.out.query
    /\ \A noise \in {0, 37} :
         createFallbackEmbedding(Pool[probe.arg.pkg], noise) = probe.out.fallback

\* C26: whenever initializeIndex is not under way (it has not passed the
\* import, or it has ended, well or badly), getPerformanceStats names the
\* backend that serves the requests: 'FAISS IndexFlatIP' exactly when a
\* request would take the index path (isInitialized and the index exists),
\* 'Fallback Cosine Similarity' when it would take fallbackSearch, and its
\* isInitialized says the same.
C26_StatusMatchesPath ==
  faissPc \in {"idle", "import", "done", "failed"} =>
    /\ getPerformanceStats.indexType = "FAISS IndexFlatIP"
         <=> isInitialized /\ faissIndex.exists
    /\ getPerformanceStats.indexType = "Fallback Cosine Similarity"
         <=> ~(isInitialized /\ faissIndex.exists)
    /\ getPerformanceStats.isInitialized
         <=> getPerformanceStats.indexType = "FAISS IndexFlatIP"

\* C27: whenever isInitialized is true the index exists, every package of
\* the catalog has a vector cached, and the index holds exactly those
\* vectors in catalog order, so that label i stands for package i.  Once
\* initializeIndex has failed, isInitialized is false and stays false
\* whatever requests follow.
C27_ReadinessFlag ==
  /\ [](isInitialized =>
          /\ faissIndex.exists
          /\ \A n \in 1..Len(packages) : packages[n].id \in DOMAIN packageEmbeddings
          /\ Len(faissIndex.vectors) = Len(packages)
          /\ \A n \in 1..Len(packages) :
               faissIndex.vectors[n] = packageEmbeddings[packages[n].id])
  /\ [](faissPc = "failed" => ~isInitialized)
  /\ [][faissPc = "failed" => faissPc' = "failed" /\ ~isInitialized']_vars

\* C27 at work: the index is ready over six packages and has served a
\* request
C27_ReadyOverSix ==
  /\ isInitialized /\ faissPc = "done"
  /\ Len(packages) = 6 /\ Len(faissIndex.vectors) = 6
  /\ last.engine = "faiss" /\ last.path = "index"

\* the user's messages in a chat, and the AI messages that answer them
Sent(c) == Cardinality({m \in 1..Len(c.messages) : c.messages[m].type = "user"})
Replies(c) ==
  Cardinality({m \in 1..Len(c.messages) :
                 /\ c.messages[m].type = "ai"
                 /\ c.messages[m].content \notin {"assistant", "added to your cart"}})

\* C28: a handleSendMessage that passes its guard appends the user's
\* message, and the call of processUserQuery it makes, once settled, is
\* answered by exactly one AI message: the service's response if it
\* resolved, the apology if it rejected.  isLoading is true from the one to
\* the other and false afterwards, and every message sent is answered in
\* the end.  (The confirmations of handleAddToCart are AI messages too;
\* they answer no query and are not counted.)
C28_OneReplyPerMessage ==
      /\ [](Sent(chat) = Replies(chat) + IF chat.isLoading THEN 1 ELSE 0)
      /\ [][~chat.isLoading /\ chat'.isLoading =>
             chat'.messages = Append(chat.messages, Message("user", "inputValue", Absent))]_vars
      /\ [][chat.isLoading /\ ~chat'.isLoading =>
             /\ Len(chat'.messages) = Len(chat.messages) + 1
             /\ SubSeq(chat'.messages, 1, Len(chat.messages)) = chat.messages
             /\ chat'.messages[Len(chat'.messages)].type = "ai"
             /\ chat'.messages[Len(chat'.messages)].content \notin
                  {"assistant", "added to your cart", "inputValue"}]_vars
      /\ (chat.isLoading ~> ~chat.isLoading)

\* C28 at work: two messages were sent; the first was answered with the
\* apology, the second with suggestions, and the chat is idle again
C28_ApologyThenAnswer ==
  /\ ~chat.isLoading /\ chat.pending = <<>>
  /\ Len(chat.messages) = 5
  /\ chat.messages[2].type = "user" /\ chat.messages[3].content = "apology"
  /\ chat.messages[4].type = "user" /\ chat.messages[5].type = "ai"
  /\ chat.messages[5].suggestions.set

\* C29: at most one processUserQuery call is in flight, isLoading is true
\* exactly while one is, and from a state in which isLoading is true or the
\* input is empty or white space no step appends a user message or starts a
\* request: handleSendMessage returns at its guard.  No text that is empty
\* after trim is ever sent.
C29_OneRequestInFlight ==
      /\ [](Len(chat.pending) <= 1)
      /\ [](chat.isLoading <=> chat.pending # <<>>)
      /\ [](\A i \in 1..Len(chat.pending) : trim(InputText(chat.pending[i])) # <<>>)
      /\ [][chat.isLoading \/ trim(InputText(chat.inputValue)) = <<>> =>
             /\ Sent(chat') = Sent(chat)
             /\ \/ chat'.pending = chat.pending
                \/ chat.pending # <<>> /\ chat'.pending = Tail(chat.pending)]_vars

\* C29 at work: the first message was answered, the second is being
\* processed, and it is the only one
C29_SecondInFlight ==
  /\ chat.isLoading
  /\ Len(chat.pending) = 1
  /\ Len(chat.messages) = 4
  /\ chat.messages[2].type = "user" /\ chat.messages[3].type = "ai"
  /\ chat.messages[4].type = "user"

\* C30: over a catalog that is not empty, every answer of processUserQuery
\* to a query that contains recommend, suggest, find, show, want, looking,
\* tickets, events or games carries suggestedPackages, and at least one.
C30_AlwaysSuggestions ==
  [][(/\ chat'.sent = chat.sent + 1
      /\ AsksForPackages[chat'.query]
      /\ Len(packages) > 0)
       => /\ chat'.messages[Len(chat'.messages)].suggestions.set
          /\ Len(chat'.messages[Len(chat'.messages)].suggestions.v) > 0]_vars

=============================================================================
